---- MODULE Spec2Model ----
(***************************************************************************)
(* crm-api: the lead intake (LeadsService.handleWhatsappWebhook) with the  *)
(* fire-and-forget stage webhook it triggers, the operations of            *)
(* IncomingWebhooksService (changeLeadStage, replyWhatsappMessage,         *)
(* checkAvailabilityForMeeting, bookMeeting) with the calendar client of   *)
(* GoogleService, the signature guard of the intake route, and the API key *)
(* cache.  Each part has its own specification over the same variables.    *)
(* Every record-store or HTTP call is one atomic step; the JavaScript that *)
(* runs between two awaits touches only the locals of its own invocation   *)
(* and is folded into the step of the call that resumed it.                *)
(***************************************************************************)
EXTENDS Integers, Sequences, FiniteSets, TLC

\* ---------------------------------------------------------------- bounds
\* number of deliveries of the event (handleWhatsappWebhook invocations)
MaxProcs == 2
\* number of disturbances in a behaviour: record-store or messaging calls
\* that fail, and external close actions
MaxDisturbances == 1
\* largest stage position of the stage tables drawn for getRelatedStages
MaxPosition == 4
\* length in hours of the longest working-hour window drawn for the slot search
MaxHours == 3
\* number of characters of a digest
DigestLength == 2

Proc == 1..MaxProcs

\* ------------------------------------------------------- null-like values
\* JavaScript null / undefined of a string-valued field
NULL == "null"
\* `existingLead?.id || 0`: the id reported when no row came back
NoRowId == 0
\* a result object without a lead_id key
NoLeadId == -1
\* a result object without a count key (existingCount is falsy)
NoCount == 0

\* a test for null only, which lets the empty string through
IsNullOnly(s) == s = NULL

\* JavaScript falsiness of a string-or-null value (`!x`)
Falsy(s) == s = NULL \/ s = ""

\* ------------------------------------------------------ record store rows
\* pipelines table (read-only to the handler); pipeline 7 has no channel id
Pipelines ==
  { [id |-> 1, business_id |-> 1, whatsapp_is_enabled |-> TRUE,  whatsapp_phone_number_id |-> "pn1"],
    [id |-> 2, business_id |-> 1, whatsapp_is_enabled |-> FALSE, whatsapp_phone_number_id |-> "pn2"],
    [id |-> 3, business_id |-> 9, whatsapp_is_enabled |-> TRUE,  whatsapp_phone_number_id |-> "pn3"],
    [id |-> 4, business_id |-> 1, whatsapp_is_enabled |-> TRUE,  whatsapp_phone_number_id |-> "pn4"],
    [id |-> 5, business_id |-> 9, whatsapp_is_enabled |-> TRUE,  whatsapp_phone_number_id |-> "pn5"],
    [id |-> 6, business_id |-> 1, whatsapp_is_enabled |-> TRUE,  whatsapp_phone_number_id |-> "pn6"],
    [id |-> 7, business_id |-> 1, whatsapp_is_enabled |-> FALSE, whatsapp_phone_number_id |-> NULL] }

\* businesses table: business 9 of pipelines 3 and 5 does not exist
Businesses == { [id |-> 1] }

\* pipeline_stages table: pipelines 4 and 5 have no input stage, the stages
\* of pipeline 6 have no webhook_url (null, or the empty string)
Stages ==
  { [id |-> 11, pipeline_id |-> 1, business_id |-> 1, position |-> 1, is_input |-> FALSE, webhook_url |-> NULL],
    [id |-> 12, pipeline_id |-> 1, business_id |-> 1, position |-> 2, is_input |-> TRUE,  webhook_url |-> "https://hook/12"],
    [id |-> 13, pipeline_id |-> 1, business_id |-> 1, position |-> 3, is_input |-> FALSE, webhook_url |-> NULL],
    [id |-> 14, pipeline_id |-> 1, business_id |-> 1, position |-> 4, is_input |-> FALSE, webhook_url |-> NULL],
    [id |-> 21, pipeline_id |-> 2, business_id |-> 1, position |-> 1, is_input |-> TRUE,  webhook_url |-> "https://hook/21"],
    [id |-> 31, pipeline_id |-> 3, business_id |-> 9, position |-> 1, is_input |-> TRUE,  webhook_url |-> "https://hook/31"],
    [id |-> 41, pipeline_id |-> 4, business_id |-> 1, position |-> 1, is_input |-> FALSE, webhook_url |-> NULL],
    [id |-> 61, pipeline_id |-> 6, business_id |-> 1, position |-> 1, is_input |-> TRUE,  webhook_url |-> NULL],
    [id |-> 62, pipeline_id |-> 6, business_id |-> 1, position |-> 2, is_input |-> FALSE, webhook_url |-> ""] }

\* ------------------------------------------------------------ the request
\* request.body of the message-received webhook, reduced to the fields
\* extractConversationInfo reads
Events ==
  { [phone_number_id |-> NULL,  phone_number |-> "A",  conversation_id |-> "c1"],
    [phone_number_id |-> "",    phone_number |-> "B",  conversation_id |-> "c2"],
    [phone_number_id |-> "pn1", phone_number |-> "A",  conversation_id |-> "c1"],
    [phone_number_id |-> "pn1", phone_number |-> "B",  conversation_id |-> NULL],
    [phone_number_id |-> "pn1", phone_number |-> NULL, conversation_id |-> "c1"],
    [phone_number_id |-> "pn2", phone_number |-> "A",  conversation_id |-> "c1"],
    [phone_number_id |-> "pn4", phone_number |-> "A",  conversation_id |-> "c1"],
    [phone_number_id |-> "pn5", phone_number |-> "A",  conversation_id |-> "c1"] }

NoEvent == [phone_number_id |-> NULL, phone_number |-> NULL, conversation_id |-> NULL]

\* extractConversationInfo: null without a phone_number_id, otherwise the
\* conversation fields with `|| null` applied
NoInfo == [phoneNumberId |-> NULL, phoneNumber |-> NULL, whatsappConversationId |-> NULL]
extractConversationInfo(body) ==
  IF Falsy(body.phone_number_id)
    THEN NoInfo
    ELSE [phoneNumberId          |-> body.phone_number_id,
          phoneNumber            |-> IF Falsy(body.phone_number) THEN NULL ELSE body.phone_number,
          whatsappConversationId |-> IF Falsy(body.conversation_id) THEN NULL ELSE body.conversation_id]

\* -------------------------------------------------- change-stage request
\* a field of the JSON body: its JavaScript type and, for a number or a
\* numeric string, its numeric value
Undefined == [t |-> "undefined", v |-> 0]
Num(n) == [t |-> "number", v |-> n]
Str(n) == [t |-> "string", v |-> n]
\* a text of the given length
Text(len) == [t |-> "string", v |-> len]
\* bodies of the change-stage webhook: leads 1 and 2 exist and lead 9 does
\* not, stages 12 and 13 exist and stage 99 does not
LeadIdValues == { Undefined, Str(1), Num(0), Num(1), Num(2), Num(9) }
StageIdValues == { Undefined, Str(12), Num(0), Num(12), Num(13), Num(99) }
Dtos == { [leadId |-> a, newPipelineStageId |-> b, text |-> Undefined] :
            a \in LeadIdValues, b \in StageIdValues }
NoDto == [leadId |-> Undefined, newPipelineStageId |-> Undefined, text |-> Undefined]
\* a validation that only tests for a falsy value
InvalidIdFalsyOnly(x) == x.t = "undefined" \/ (x.t = "number" /\ x.v = 0)

\* `!x || typeof x !== 'number'`
InvalidId(x) == x.t = "undefined" \/ (x.t = "number" /\ x.v = 0) \/ x.t # "number"
\* `!dto.text || typeof dto.text !== 'string'`
InvalidText(x) == x.t = "undefined" \/ (x.t = "string" /\ x.v = 0) \/ x.t # "string"

\* ---------------------------------------------------------------- results
\* message texts of the handler's result objects
MsgMissingPhoneNumberId == "Missing phone_number_id"
MsgPipelineNotFound     == "Pipeline not found or WhatsApp not enabled"
MsgBusinessNotFound     == "Business not found"
MsgStageNotFound        == "Input stage not found for pipeline"
MsgUnexpected           == "Unexpected error processing webhook"
MsgCreated              == "Webhook processed and lead created"
MsgSkipped              == "Opened lead already exists for this phone number"
\* texts of the Errors thrown by getOrCreateLead (the store's own message is
\* StoreErrorText)
StoreErrorText      == "store failure"
ErrPhoneRequired    == "Phone number is required to get or create lead"
ErrCheckingExisting == "Error checking for existing leads: store failure"
ErrCreateFailed     == "Failed to create lead: store failure"
ErrCreateNoRow      == "Failed to create lead: Unknown error"

\* message texts of changeLeadStage's result objects
MsgInvalidLeadId   == "Invalid leadId format"
MsgInvalidStageId  == "Invalid newPipelineStageId format"
MsgLeadNotFound    == "Lead not found"
MsgNewStageNotFound == "New pipeline stage not found"
MsgAlreadyInStage  == "Lead is already in the target stage"
MsgStageUpdated    == "Lead stage updated successfully"
MsgUpdateFailed    == "Failed to update lead stage"
\* the store's message when .single() matches no row
NoRowsText == "no rows returned"
\* message texts of replyWhatsappMessage's result objects
MsgInvalidText      == "Invalid text format"
MsgErrorGettingLead == "Error getting lead"
MsgMissingChannel   == "Missing phoneNumberId or phoneNumber in lead"
MsgReplySent        == "WhatsApp message sent successfully"
MsgReplyFailed      == "Failed to send message via WhatsApp"
\* message texts of checkAvailabilityForMeeting's and bookMeeting's results
MsgNoCalendar        == "Employee does not have a calendar connected"
MsgNoGoogleAuth      == "Failed to authenticate with Google Calendar"
MsgAvailabilityError == "Error checking availability"
MsgSlotAvailable     == "Time slot is available"
MsgSlotOccupied      == "Time slot is already occupied"
MsgMeetingBooked     == "Meeting booked successfully"
MsgBookFailed        == "Failed to book meeting"

NoResult == [status |-> NULL, message |-> NULL, lead_id |-> NoLeadId, count |-> NoCount, error |-> NULL,
   isAvailable |-> NULL, suggestedSlots |-> << >>]
\* the early `return { status: 'error', message }` objects
ErrorResult(msg) ==
  [status |-> "error", message |-> msg, lead_id |-> NoLeadId, count |-> NoCount, error |-> NULL,
   isAvailable |-> NULL, suggestedSlots |-> << >>]
\* changeLeadStage's `return { status: 'error', message, error }` objects
FailedResult(msg, errText) ==
  [status |-> "error", message |-> msg, lead_id |-> NoLeadId, count |-> NoCount, error |-> errText,
   isAvailable |-> NULL, suggestedSlots |-> << >>]
\* changeLeadStage's `return { status: 'success', message }` objects
SuccessResult(msg) ==
  [status |-> "success", message |-> msg, lead_id |-> NoLeadId, count |-> NoCount, error |-> NULL,
   isAvailable |-> NULL, suggestedSlots |-> << >>]
\* the `{ isAvailable, message, suggestedSlots }` objects of
\* checkAvailabilityForMeeting and GoogleService.checkAvailability, which
\* have no status key; isAvailable is "true" or "false", and no
\* suggestedSlots key is the empty sequence
AvailabilityResult(avail, msg, slots) ==
  [status |-> NULL, message |-> msg, lead_id |-> NoLeadId, count |-> NoCount, error |-> NULL,
   isAvailable |-> avail, suggestedSlots |-> slots]
\* a catch block that drops the thrown Error's message
CaughtResultNoText(errText) ==
  [status |-> "error", message |-> MsgUnexpected, lead_id |-> NoLeadId, count |-> NoCount, error |-> NULL,
   isAvailable |-> NULL, suggestedSlots |-> << >>]

\* the object built by the catch block from a thrown Error
CaughtResult(errText) ==
  [status |-> "error", message |-> MsgUnexpected, lead_id |-> NoLeadId, count |-> NoCount, error |-> errText,
   isAvailable |-> NULL, suggestedSlots |-> << >>]
\* the returned object with the count key left out
FinalResultNoCount(leadId, isNewLead, existingCount) ==
  [status  |-> IF isNewLead THEN "success" ELSE "skipped",
   message |-> IF isNewLead THEN MsgCreated ELSE MsgSkipped,
   lead_id |-> leadId,
   count   |-> NoCount,
   error   |-> NULL,
   isAvailable |-> NULL, suggestedSlots |-> << >>]

\* the object returned after create-or-skip
FinalResult(leadId, isNewLead, existingCount) ==
  [status  |-> IF isNewLead THEN "success" ELSE "skipped",
   message |-> IF isNewLead THEN MsgCreated ELSE MsgSkipped,
   lead_id |-> leadId,
   count   |-> IF existingCount > 0 THEN existingCount ELSE NoCount,
   error   |-> NULL,
   isAvailable |-> NULL, suggestedSlots |-> << >>]

\* ------------------------------------------------------------------ state
VARIABLES
  event,        \* the inbound event the provider delivers
  stageRows,    \* pipeline_stages table (none of the operations writes it)
  dto,          \* the body the CRM sends to the change-stage webhook
  deals,        \* pipeline_stage_deals table (written by DealsService only)
  leads,        \* pipeline_stage_leads table: sequence of rows, id = index
  disturbances, \* number of failed calls and external closes so far
  pc,           \* per invocation: the await the handler is suspended at
  req,          \* per invocation: request.body
  pipeline,     \* per invocation: id of the resolved pipeline, 0 = null
  business,     \* per invocation: id of the resolved business, 0 = null
  stage,        \* per invocation: id of the resolved input stage, 0 = null
  count,        \* per invocation: result of the open-lead count query
  lead,         \* per invocation: `lead` returned by getOrCreateLead, or
                \* `existingLead` read by changeLeadStage
  previousStages, \* per invocation: ids returned by the previous-stages query
  nextStages,   \* per invocation: ids returned by the next-stages query
  result,       \* per invocation: object returned by handleWhatsappWebhook
  calls,        \* per invocation: outcome of each store or HTTP call made
  dpc,          \* per invocation: position of its executeStageWebhook call
  messages,     \* per invocation: `messages` of executeStageWebhook
  fetches,      \* per invocation: number of whatsappService.getMessages calls
  posts,        \* per invocation: bodies handed to axios.post (handleEvent:
                \* the arguments of whatsappService.sendMessage)
  openAtStart,  \* per invocation: open leads of its phone number when it began
  lenAtStart,   \* per invocation: number of lead rows when it began
  now,          \* the clock, in minutes since local midnight of the requested day
  credentials,  \* whether GOOGLE_CLIENT_ID and GOOGLE_CLIENT_SECRET are configured
  busy,         \* the busy intervals of the employee's primary calendar
  meetingDto,   \* date, duration and working hours of the meeting request
  connections,  \* business_employee_oauth_connections table, id = index
  connection,   \* per invocation: the connection row it resolved
  accessToken,  \* per invocation: what getValidAccessToken returned
  busyIntervals, \* per invocation: `busyIntervals` of findAvailableSlots
  currentSlot,  \* per invocation: `currentSlot` of findAvailableSlots
  suggested,    \* per invocation: `suggested` of findAvailableSlots
  httpRequest,  \* what SignatureGuard reads of the request and the configuration
  guard,        \* per request: what canActivate returned or threw
  validation,   \* per request: what validateSignature returned, and whether
                \* it called timingSafeEqual
  apiKeyRows,   \* user_api_keys table: sequence of rows
  cache,        \* CacheService.userApiKeysByUserId: the rows of each user
  loadedData,   \* `data` of the loadUserApiKeys call that last filled the cache
  loadPc,       \* per call of refreshUserApiKeys: its position
  fetched,      \* per call of refreshUserApiKeys: what its select returned
  apiKey,       \* the x-api-key header of the requests
  apiGuard      \* per request: what ApiKeyGuard.canActivate returned or
                \* threw, and the row it attached to the request

envVars    == <<leads, disturbances>>
localVars  == <<pipeline, business, stage, count, lead, previousStages, nextStages>>
dispVars   == <<dpc, messages, fetches, posts>>
requestVars == <<event, stageRows, dto, deals>>
\* the calendar client: what it is given, and what it reads and writes
calInputs  == <<now, credentials, busy, meetingDto>>
tokenVars  == <<connections, connection, accessToken>>
slotVars   == <<busyIntervals, currentSlot, suggested>>
\* everything the lead intake and the stage change leave alone
\* the signature guard
sigVars    == <<httpRequest, guard, validation>>
\* the API key cache and its guard
cacheVars  == <<apiKeyRows, cache, loadedData, loadPc, fetched, apiKey, apiGuard>>
inputVars  == <<requestVars, calInputs, tokenVars, slotVars, sigVars, cacheVars>>
startVars  == <<inputVars, req, openAtStart, lenAtStart>>
\* what the calendar operations leave alone of startVars
meetFrame  == <<requestVars, calInputs, sigVars, cacheVars, req, openAtStart, lenAtStart>>
vars == <<event, stageRows, dto, deals, leads, disturbances, pc, req, pipeline, business, stage, count, lead,
          previousStages, nextStages, result, calls, dpc, messages, fetches,
          posts, openAtStart, lenAtStart, now, credentials, busy, meetingDto,
          connections, connection, accessToken, busyIntervals, currentSlot,
          suggested, httpRequest, guard, validation, apiKeyRows, cache, loadedData,
          loadPc, fetched, apiKey, apiGuard>>

\* the record-store calls of one handleWhatsappWebhook invocation
StoreCalls == { "pipelines.select", "businesses.select", "stages.input",
                "leads.count", "leads.select", "leads.insert",
                "stages.previous", "stages.next" }
\* the HTTP calls of one executeStageWebhook call and the message send of
\* replyWhatsappMessage
HttpCalls == { "whatsapp.getMessages", "axios.post", "whatsapp.send" }
\* the calls of the two meeting operations: the connection lookup, the
\* token refresh and its save, the free/busy query of the requested window,
\* the free/busy query of the whole day, and the event creation
MeetingCalls == { "connections.select", "oauth.token", "connections.update",
                  "calendar.freeBusy", "calendar.dayFreeBusy", "calendar.events" }
\* the record-store calls of one changeLeadStage invocation
ChangeCalls == { "leads.byId", "stages.byId", "leads.update" }
\* every call whose outcome is logged per invocation
\* the deal queries of one DealsService.handleWebhook invocation (its
\* pipeline and stage queries are logged as pipelines.select, stages.input)
DealCalls == { "deals.closed", "deals.insert" }
AllCalls == StoreCalls \cup HttpCalls \cup ChangeCalls \cup MeetingCalls \cup DealCalls
\* outcome of a call to the record store or to an HTTP peer
Outcomes == { "ok", "error" }

\* `existingLead` / `lead` when the query returned no row
NullLead == [id |-> NoRowId, phone_number |-> NULL, closed_at |-> NULL,
             pipeline_stage_id |-> 0, value |-> 0, business_id |-> 0,
             business_employee_id |-> 0, whatsapp_conversation_id |-> NULL]

Info(p) == extractConversationInfo(req[p])

\* the rows of the store that are open leads of phone number ph
OpenInStore(ph) ==
  { i \in DOMAIN leads : leads[i].phone_number = ph /\ leads[i].closed_at = NULL }

\* the filter with closed_at tested the wrong way round
ClosedLeads(rows, ph) ==
  { i \in 1..Len(rows) : rows[i].phone_number = ph /\ rows[i].closed_at # NULL }

\* rows of pipeline_stage_leads with .eq('phone_number', ph).is('closed_at', null)
OpenLeads(rows, ph) ==
  { i \in 1..Len(rows) : rows[i].phone_number = ph /\ rows[i].closed_at = NULL }
OpenCount(rows, ph) == Cardinality(OpenLeads(rows, ph))

\* .single(): the row when exactly one row matches, otherwise an error
Single(rows) == IF Cardinality(rows) = 1 THEN CHOOSE r \in rows : TRUE ELSE [id |-> 0]

\* the filter without .eq('whatsapp_is_enabled', true)
findPipelineRowsAnyState(phoneNumberId) ==
  { pl \in Pipelines : pl.whatsapp_phone_number_id = phoneNumberId }

\* findPipeline's filter
findPipelineRows(phoneNumberId) ==
  { pl \in Pipelines : pl.whatsapp_is_enabled = TRUE
                       /\ pl.whatsapp_phone_number_id = phoneNumberId }
\* findBusiness's filter
findBusinessRows(businessId) == { b \in Businesses : b.id = businessId }
\* findInputStage's filter
findInputStageRows(pipelineId) ==
  { s \in stageRows : s.pipeline_id = pipelineId /\ s.is_input = TRUE }

PipelineRow(id) == CHOOSE pl \in Pipelines : pl.id = id
StageRow(id)    == CHOOSE s \in stageRows : s.id = id

\* a row of pipeline_stage_leads written before the behaviour begins
ExistingLead(id, phoneNumber, closedAt) ==
  [id |-> id, phone_number |-> phoneNumber, closed_at |-> closedAt,
   pipeline_stage_id |-> 13, value |-> 0, business_id |-> 1,
   business_employee_id |-> id, whatsapp_conversation_id |-> "c0"]

\* contents of pipeline_stage_leads when the behaviour begins: at most one
\* open lead per phone number
InitialStores ==
  { << >>,
    << ExistingLead(1, "A", "closed"), ExistingLead(2, "B", NULL) >> }

\* a request that carries nothing, and a guard that has not run
NoHttpRequest ==
  [config |-> FALSE, secret |-> NULL, headerName |-> NULL, signature |-> << >>,
   rawBody |-> NULL, hasBody |-> FALSE]
NoValidation == [returned |-> NULL, compared |-> FALSE]
GuardIdle ==
  /\ guard = [p \in Proc |-> NULL]
  /\ validation = [p \in Proc |-> NoValidation]
GuardUnused == httpRequest = NoHttpRequest /\ GuardIdle

\* the users whose keys the cache groups
Users == { "u1", "u2" }
\* `undefined` of getUserApiKey
NoKeyRow == [key |-> NULL, user_id |-> NULL, is_active |-> FALSE]
\* a guard that has not run
NoApiGuard == [outcome |-> NULL, userApiKey |-> NoKeyRow]
CacheIdle ==
  /\ loadPc = [p \in Proc |-> "idle"]
  /\ fetched = [p \in Proc |-> << >>]
  /\ apiGuard = [p \in Proc |-> NoApiGuard]
\* an empty table and an empty cache that nothing reads
CacheUnused ==
  /\ apiKeyRows = << >>
  /\ cache = [u \in Users |-> << >>]
  /\ loadedData = << >>
  /\ apiKey = NULL
  /\ CacheIdle

\* a deals table that nothing reads
DealsUnused == deals = << >>

\* a connection row that no lookup returned
NoExpiry == -1
NoConnection ==
  [id |-> 0, business_employee_id |-> 0, business_id |-> 0, access_token |-> NULL,
   refresh_token |-> NULL, token_expires_at |-> NoExpiry]
NoMeetingDto == [date |-> 0, duration |-> 0, minWorkingHour |-> 0, maxWorkingHour |-> 0]

\* the locals of the meeting operations before any of them has run
MeetingLocalsInit ==
  /\ connection = [p \in Proc |-> NoConnection]
  /\ accessToken = [p \in Proc |-> NULL]
  /\ busyIntervals = [p \in Proc |-> {}]
  /\ currentSlot = [p \in Proc |-> 0]
  /\ suggested = [p \in Proc |-> << >>]

\* no connection, no calendar and no meeting request
CalendarUnused ==
  /\ now = 0
  /\ credentials = FALSE
  /\ busy = {}
  /\ meetingDto = NoMeetingDto
  /\ connections = << >>
  /\ MeetingLocalsInit

Init ==
  /\ event \in Events
  /\ stageRows = Stages
  /\ dto = NoDto
  /\ leads \in InitialStores
  /\ disturbances = 0
  /\ pc = [p \in Proc |-> "idle"]
  /\ req = [p \in Proc |-> NoEvent]
  /\ pipeline = [p \in Proc |-> 0]
  /\ business = [p \in Proc |-> 0]
  /\ stage = [p \in Proc |-> 0]
  /\ count = [p \in Proc |-> 0]
  /\ lead = [p \in Proc |-> NullLead]
  /\ previousStages = [p \in Proc |-> << >>]
  /\ nextStages = [p \in Proc |-> << >>]
  /\ result = [p \in Proc |-> NoResult]
  /\ calls = [p \in Proc |-> [c \in AllCalls |-> "none"]]
  /\ dpc = [p \in Proc |-> "none"]
  /\ messages = [p \in Proc |-> << >>]
  /\ fetches = [p \in Proc |-> 0]
  /\ posts = [p \in Proc |-> << >>]
  /\ openAtStart = [p \in Proc |-> 0]
  /\ lenAtStart = [p \in Proc |-> 0]
  /\ GuardUnused
  /\ CalendarUnused
  /\ CacheUnused
  /\ DealsUnused

\* the handler returns r
Return(p, r) ==
  /\ pc' = [pc EXCEPT ![p] = "done"]
  /\ result' = [result EXCEPT ![p] = r]

\* the handler suspends at the await named at
Await(p, at) ==
  /\ pc' = [pc EXCEPT ![p] = at]
  /\ UNCHANGED result

\* the call c of invocation p settles with outcome out
Called(p, c, out) ==
  /\ out # "ok" => disturbances < MaxDisturbances
  /\ disturbances' = IF out # "ok" THEN disturbances + 1 ELSE disturbances
  /\ calls' = [calls EXCEPT ![p][c] = out]

\* A delivery of the event arrives: handleWhatsappWebhook runs up to its
\* first await.  Invocations are numbered in order of arrival.
Start(p) ==
  /\ pc[p] = "idle"
  /\ \A q \in Proc : q < p => pc[q] # "idle"
  /\ LET e == event IN
       /\ req' = [req EXCEPT ![p] = e]
       /\ openAtStart' = [openAtStart EXCEPT
                            ![p] = Cardinality(OpenInStore(extractConversationInfo(e).phoneNumber))]
       /\ IF extractConversationInfo(e) = NoInfo
            THEN Return(p, ErrorResult(MsgMissingPhoneNumberId))
            ELSE Await(p, "findPipeline")
  /\ lenAtStart' = [lenAtStart EXCEPT ![p] = Len(leads)]
  /\ UNCHANGED <<inputVars, envVars, localVars, calls, dispVars>>

\* findPipeline's query completes
FindPipeline(p) ==
  /\ pc[p] = "findPipeline"
  /\ \E out \in Outcomes :
       LET row == IF out = "ok" THEN Single(findPipelineRows(Info(p).phoneNumberId))
                                ELSE [id |-> 0]
       IN /\ Called(p, "pipelines.select", out)
          /\ pipeline' = [pipeline EXCEPT ![p] = row.id]
          /\ IF row.id = 0
               THEN Return(p, ErrorResult(MsgPipelineNotFound))
               ELSE Await(p, "lookups")
  /\ UNCHANGED <<leads, startVars, business, stage, count, lead,
                 previousStages, nextStages, dispVars>>

\* the join without the phone-number precondition of getOrCreateLead
JoinLookupsNoPhoneCheck(p, biz, stg) ==
  IF biz = 0 THEN Return(p, ErrorResult(MsgBusinessNotFound))
  ELSE IF stg = 0 THEN Return(p, ErrorResult(MsgStageNotFound))
  ELSE Await(p, "count")

\* the join with the stage tested before the business
JoinLookupsStageFirst(p, biz, stg) ==
  IF stg = 0 THEN Return(p, ErrorResult(MsgStageNotFound))
  ELSE IF biz = 0 THEN Return(p, ErrorResult(MsgBusinessNotFound))
  ELSE IF Falsy(Info(p).phoneNumber) THEN Return(p, CaughtResult(ErrPhoneRequired))
  ELSE Await(p, "count")

\* The code after `await Promise.all([findBusiness, findInputStage])`, with
\* the resolved ids biz and stg: the two null checks, then getOrCreateLead up
\* to its count query.
JoinLookups(p, biz, stg) ==
  IF biz = 0 THEN Return(p, ErrorResult(MsgBusinessNotFound))
  ELSE IF stg = 0 THEN Return(p, ErrorResult(MsgStageNotFound))
  ELSE IF Falsy(Info(p).phoneNumber) THEN Return(p, CaughtResult(ErrPhoneRequired))
  ELSE Await(p, "count")

\* the business lookup followed at once by the tests, without the join
FindBusinessNotJoined(p) ==
  /\ pc[p] = "lookups"
  /\ calls[p]["businesses.select"] = "none"
  /\ \E out \in Outcomes :
       LET row == IF out = "ok"
                    THEN Single(findBusinessRows(PipelineRow(pipeline[p]).business_id))
                    ELSE [id |-> 0]
       IN /\ Called(p, "businesses.select", out)
          /\ business' = [business EXCEPT ![p] = row.id]
          /\ JoinLookups(p, row.id, stage[p])
  /\ UNCHANGED <<leads, startVars, pipeline, stage, count, lead,
                 previousStages, nextStages, dispVars>>

\* findBusiness's query completes
FindBusiness(p) ==
  /\ pc[p] = "lookups"
  /\ calls[p]["businesses.select"] = "none"
  /\ \E out \in Outcomes :
       LET row == IF out = "ok"
                    THEN Single(findBusinessRows(PipelineRow(pipeline[p]).business_id))
                    ELSE [id |-> 0]
       IN /\ Called(p, "businesses.select", out)
          /\ business' = [business EXCEPT ![p] = row.id]
          /\ IF calls[p]["stages.input"] = "none"
               THEN Await(p, "lookups")
               ELSE JoinLookups(p, row.id, stage[p])
  /\ UNCHANGED <<leads, startVars, pipeline, stage, count, lead,
                 previousStages, nextStages, dispVars>>

\* findInputStage's query completes
FindInputStage(p) ==
  /\ pc[p] = "lookups"
  /\ calls[p]["stages.input"] = "none"
  /\ \E out \in Outcomes :
       LET row == IF out = "ok" THEN Single(findInputStageRows(pipeline[p]))
                                ELSE [id |-> 0]
       IN /\ Called(p, "stages.input", out)
          /\ stage' = [stage EXCEPT ![p] = row.id]
          /\ IF calls[p]["businesses.select"] = "none"
               THEN Await(p, "lookups")
               ELSE JoinLookups(p, business[p], row.id)
  /\ UNCHANGED <<leads, startVars, pipeline, business, count, lead,
                 previousStages, nextStages, dispVars>>

\* getOrCreateLead's count query ({ count: 'exact', head: true }) completes
CountOpenLeads(p) ==
  /\ pc[p] = "count"
  /\ \E out \in Outcomes :
       /\ Called(p, "leads.count", out)
       /\ IF out = "error"
            THEN /\ Return(p, CaughtResult(ErrCheckingExisting))
                 /\ UNCHANGED count
            ELSE LET n == OpenCount(leads, Info(p).phoneNumber)
                 IN /\ count' = [count EXCEPT ![p] = n]
                    /\ Await(p, IF n > 0 THEN "fetchExisting" ELSE "insert")
  /\ UNCHANGED <<leads, startVars, pipeline, business, stage, lead,
                 previousStages, nextStages, dispVars>>

\* the query for the existing lead (.limit(1).single(), error ignored)
\* completes: any one open row of the phone number, or no row
FetchExisting(p) ==
  /\ pc[p] = "fetchExisting"
  /\ \E out \in Outcomes :
       /\ Called(p, "leads.select", out)
       /\ \E row \in IF out = "ok" /\ OpenLeads(leads, Info(p).phoneNumber) # {}
                       THEN { leads[i] : i \in OpenLeads(leads, Info(p).phoneNumber) }
                       ELSE { NullLead } :
            lead' = [lead EXCEPT ![p] = row]
  /\ Await(p, "related")
  /\ UNCHANGED <<leads, startVars, pipeline, business, stage, count,
                 previousStages, nextStages, dispVars>>

\* leadData with the stage's business id written to pipeline_stage_id
NewLeadRowWrongStage(id, info, stg) ==
  [id                       |-> id,
   phone_number             |-> info.phoneNumber,
   closed_at                |-> NULL,
   pipeline_stage_id        |-> stg.business_id,
   value                    |-> 0,
   business_id              |-> stg.business_id,
   business_employee_id |-> 0,
   whatsapp_conversation_id |-> info.whatsappConversationId]

\* leadData of getOrCreateLead, as the row the store returns for it
NewLeadRow(id, info, stg) ==
  [id                       |-> id,
   phone_number             |-> info.phoneNumber,
   closed_at                |-> NULL,
   pipeline_stage_id        |-> stg.id,
   value                    |-> 0,
   business_id              |-> stg.business_id,
   business_employee_id |-> 0,
   whatsapp_conversation_id |-> info.whatsappConversationId]

\* an insert that a unique index on the open phone number turns into a no-op
InsertRowUnlessOpen(rows, row) ==
  IF \E i \in 1..Len(rows) : rows[i].phone_number = row.phone_number
                              /\ rows[i].closed_at = NULL
    THEN rows
    ELSE Append(rows, row)

\* the table after .insert(row)
InsertRow(rows, row) == Append(rows, row)

\* outcomes of the insert: a row, an error, or neither (`!lead` with no
\* error)
InsertOutcomes == Outcomes \cup { "empty" }

\* the insert without the test `leadError || !lead`
InsertLeadUnchecked(p) ==
  /\ pc[p] = "insert"
  /\ \E out \in InsertOutcomes :
       /\ Called(p, "leads.insert", out)
       /\ IF out # "ok"
            THEN /\ lead' = [lead EXCEPT ![p] = NullLead]
                 /\ UNCHANGED leads
                 /\ Await(p, "related")
            ELSE LET row == NewLeadRow(Len(leads) + 1, Info(p), StageRow(stage[p]))
                 IN /\ leads' = InsertRow(leads, row)
                    /\ lead' = [lead EXCEPT ![p] = leads'[Len(leads')]]
                    /\ Await(p, "related")
  /\ UNCHANGED <<startVars, pipeline, business, stage, count,
                 previousStages, nextStages, dispVars>>

\* the insert (.insert(leadData).select('*').single()) completes
InsertLead(p) ==
  /\ pc[p] = "insert"
  /\ \E out \in InsertOutcomes :
       /\ Called(p, "leads.insert", out)
       /\ IF out = "error"
            THEN /\ Return(p, CaughtResult(ErrCreateFailed))
                 /\ UNCHANGED <<leads, lead>>
          ELSE IF out = "empty"
            THEN /\ Return(p, CaughtResult(ErrCreateNoRow))
                 /\ UNCHANGED <<leads, lead>>
            ELSE LET row == NewLeadRow(Len(leads) + 1, Info(p), StageRow(stage[p]))
                 IN /\ leads' = InsertRow(leads, row)
                    /\ lead' = [lead EXCEPT ![p] = leads'[Len(leads')]]
                    /\ Await(p, "related")
  /\ UNCHANGED <<startVars, pipeline, business, stage, count,
                 previousStages, nextStages, dispVars>>

\* ids of the stages in S ordered by position, ascending
RECURSIVE OrderAscending(_)
OrderAscending(S) ==
  IF S = {} THEN << >>
  ELSE LET first == CHOOSE s \in S : \A t \in S : s.position <= t.position
       IN <<first.id>> \o OrderAscending(S \ {first})

\* ids of the stages in S ordered by position, descending
RECURSIVE OrderDescending(_)
OrderDescending(S) ==
  IF S = {} THEN << >>
  ELSE LET first == CHOOSE s \in S : \A t \in S : s.position >= t.position
       IN <<first.id>> \o OrderDescending(S \ {first})

\* the first query ordered the wrong way round
previousStagesQueryAscending(pipelineId, currentPosition) ==
  OrderAscending({ s \in stageRows : s.pipeline_id = pipelineId
                                     /\ s.position < currentPosition })

\* getRelatedStages' first query: .lt('position', p).order(descending)
previousStagesQuery(pipelineId, currentPosition) ==
  OrderDescending({ s \in stageRows : s.pipeline_id = pipelineId
                                   /\ s.position < currentPosition })
\* getRelatedStages' second query: .gt('position', p).order(ascending)
nextStagesQuery(pipelineId, currentPosition) ==
  OrderAscending({ s \in stageRows : s.pipeline_id = pipelineId
                                  /\ s.position > currentPosition })

\* messages of the conversation as the provider returns them
ProviderMessages(phoneNumber) ==
  << [from |-> phoneNumber, body |-> "hi"], [from |-> "agent", body |-> "hello"] >>

\* the map of executeStageWebhook from provider messages to ChatMessage
ToChatMessages(raw, phoneNumber) ==
  [i \in 1..Len(raw) |->
     [type    |-> IF raw[i].from = phoneNumber THEN "customer" ELSE "salesperson",
      message |-> raw[i].body]]

\* requestBody of executeStageWebhook
RequestBody(p, msgs) ==
  [lead |-> lead[p].id, business |-> business[p], stage |-> stage[p],
   pipeline |-> pipeline[p], previousStages |-> previousStages'[p],
   nextStages |-> nextStages'[p], messages |-> msgs]

\* executeStageWebhook without the test of stage.webhook_url
ExecuteStageWebhookNoUrlTest(p) ==
  IF lead[p] = NullLead
    THEN /\ dpc' = [dpc EXCEPT ![p] = "rejected"]
         /\ UNCHANGED <<messages, fetches, posts>>
    ELSE /\ dpc' = [dpc EXCEPT ![p] = "post"]
         /\ posts' = [posts EXCEPT ![p] = Append(@, RequestBody(p, << >>))]
         /\ UNCHANGED <<messages, fetches>>

\* executeStageWebhook is called (not awaited) and runs to its first await:
\* no webhook_url returns at once, a null lead makes the property read throw
\* (the promise is rejected and the .catch logs it), otherwise either the
\* message fetch or the POST is issued.
ExecuteStageWebhook(p) ==
  LET stg == StageRow(stage[p])
      pl  == PipelineRow(pipeline[p])
  IN IF Falsy(stg.webhook_url)
       THEN /\ dpc' = [dpc EXCEPT ![p] = "done"]
            /\ UNCHANGED <<messages, fetches, posts>>
     ELSE IF lead[p] = NullLead
       THEN /\ dpc' = [dpc EXCEPT ![p] = "rejected"]
            /\ UNCHANGED <<messages, fetches, posts>>
     ELSE IF ~Falsy(lead[p].whatsapp_conversation_id) /\ ~Falsy(lead[p].phone_number)
             /\ ~Falsy(pl.whatsapp_phone_number_id)
       THEN /\ dpc' = [dpc EXCEPT ![p] = "getMessages"]
            /\ fetches' = [fetches EXCEPT ![p] = @ + 1]
            /\ UNCHANGED <<messages, posts>>
     ELSE /\ dpc' = [dpc EXCEPT ![p] = "post"]
          /\ posts' = [posts EXCEPT ![p] = Append(@, RequestBody(p, << >>))]
          /\ UNCHANGED <<messages, fetches>>

\* the handler with `await` in front of the executeStageWebhook call
JoinRelatedAwaiting(p) ==
  /\ ExecuteStageWebhook(p)
  /\ IF dpc'[p] \in {"getMessages", "post"}
       THEN Await(p, "dispatch")
       ELSE Return(p, FinalResult(lead[p].id, calls[p]["leads.insert"] = "ok", count[p]))

\* the end of the handler without the hand-off to the dispatcher
ReturnWithoutDispatch(p) ==
  /\ UNCHANGED dispVars
  /\ Return(p, FinalResult(lead[p].id, calls[p]["leads.insert"] = "ok", count[p]))

\* The code after `await Promise.all([previous, next])`: the dispatch is
\* fired and the result returned.
JoinRelated(p) ==
  /\ ExecuteStageWebhook(p)
  /\ Return(p, FinalResult(lead[p].id, calls[p]["leads.insert"] = "ok", count[p]))

\* the previous-stages query whose error ends the handler
PreviousStagesFailing(p) ==
  /\ pc[p] = "related"
  /\ calls[p]["stages.previous"] = "none"
  /\ \E out \in Outcomes :
       /\ Called(p, "stages.previous", out)
       /\ previousStages' = [previousStages EXCEPT ![p] =
            IF out = "ok"
              THEN previousStagesQuery(pipeline[p], StageRow(stage[p]).position)
              ELSE << >>]
       /\ UNCHANGED nextStages
       /\ IF out = "error"
            THEN Return(p, CaughtResult(StoreErrorText)) /\ UNCHANGED dispVars
          ELSE IF calls[p]["stages.next"] = "none"
            THEN Await(p, "related") /\ UNCHANGED dispVars
          ELSE JoinRelated(p)
  /\ UNCHANGED <<leads, startVars, pipeline, business, stage, count, lead>>

\* getRelatedStages' previous-stages query completes (`data || []`)
PreviousStages(p) ==
  /\ pc[p] = "related"
  /\ calls[p]["stages.previous"] = "none"
  /\ \E out \in Outcomes :
       /\ Called(p, "stages.previous", out)
       /\ previousStages' = [previousStages EXCEPT ![p] =
            IF out = "ok"
              THEN previousStagesQuery(pipeline[p], StageRow(stage[p]).position)
              ELSE << >>]
  /\ UNCHANGED nextStages
  /\ IF calls[p]["stages.next"] = "none"
       THEN Await(p, "related") /\ UNCHANGED dispVars
       ELSE JoinRelated(p)
  /\ UNCHANGED <<leads, startVars, pipeline, business, stage, count, lead>>

\* getRelatedStages' next-stages query completes (`data || []`)
NextStages(p) ==
  /\ pc[p] = "related"
  /\ calls[p]["stages.next"] = "none"
  /\ \E out \in Outcomes :
       /\ Called(p, "stages.next", out)
       /\ nextStages' = [nextStages EXCEPT ![p] =
            IF out = "ok"
              THEN nextStagesQuery(pipeline[p], StageRow(stage[p]).position)
              ELSE << >>]
  /\ UNCHANGED previousStages
  /\ IF calls[p]["stages.previous"] = "none"
       THEN Await(p, "related") /\ UNCHANGED dispVars
       ELSE JoinRelated(p)
  /\ UNCHANGED <<leads, startVars, pipeline, business, stage, count, lead>>

\* a message fetch whose failure aborts the dispatch
GetMessagesAborting(p) ==
  /\ dpc[p] = "getMessages"
  /\ \E out \in Outcomes :
       /\ Called(p, "whatsapp.getMessages", out)
       /\ IF out = "error"
            THEN /\ dpc' = [dpc EXCEPT ![p] = "rejected"]
                 /\ UNCHANGED <<messages, posts>>
            ELSE LET msgs == ToChatMessages(ProviderMessages(lead[p].phone_number),
                                            lead[p].phone_number)
                 IN /\ messages' = [messages EXCEPT ![p] = msgs]
                    /\ posts' = [posts EXCEPT ![p] =
                         Append(@, [lead |-> lead[p].id, business |-> business[p],
                                    stage |-> stage[p], pipeline |-> pipeline[p],
                                    previousStages |-> previousStages[p],
                                    nextStages |-> nextStages[p], messages |-> msgs])]
                    /\ dpc' = [dpc EXCEPT ![p] = "post"]
  /\ UNCHANGED <<leads, startVars, localVars, pc, result, fetches>>

\* whatsappService.getMessages settles; a failure leaves messages empty;
\* then the POST is issued
GetMessages(p) ==
  /\ dpc[p] = "getMessages"
  /\ \E out \in Outcomes :
       LET msgs == IF out = "ok"
                     THEN ToChatMessages(ProviderMessages(lead[p].phone_number),
                                         lead[p].phone_number)
                     ELSE << >>
       IN /\ Called(p, "whatsapp.getMessages", out)
          /\ messages' = [messages EXCEPT ![p] = msgs]
          /\ posts' = [posts EXCEPT ![p] =
               Append(@, [lead |-> lead[p].id, business |-> business[p],
                          stage |-> stage[p], pipeline |-> pipeline[p],
                          previousStages |-> previousStages[p],
                          nextStages |-> nextStages[p], messages |-> msgs])]
  /\ dpc' = [dpc EXCEPT ![p] = "post"]
  /\ UNCHANGED <<leads, startVars, localVars, pc, result, fetches>>

\* a POST whose failure replaces the result of the handler
PostWebhookFailsResult(p) ==
  /\ dpc[p] = "post"
  /\ \E out \in Outcomes :
       /\ Called(p, "axios.post", out)
       /\ result' = [result EXCEPT ![p] =
            IF out = "error" THEN CaughtResult("Request failed") ELSE @]
  /\ dpc' = [dpc EXCEPT ![p] = "done"]
  /\ UNCHANGED <<leads, startVars, localVars, pc, messages, fetches, posts>>

\* axios.post settles (2xx, or failure / timeout, which is logged and not
\* re-thrown); executeStageWebhook returns
PostWebhook(p) ==
  /\ dpc[p] = "post"
  /\ \E out \in Outcomes : Called(p, "axios.post", out)
  /\ dpc' = [dpc EXCEPT ![p] = "done"]
  /\ UNCHANGED <<leads, startVars, localVars, pc, result,
                 messages, fetches, posts>>

\* the close of a lead by the CRM front end (not part of this service)
CloseLead(i) ==
  /\ disturbances < MaxDisturbances
  /\ i \in 1..Len(leads)
  /\ leads[i].closed_at = NULL
  /\ leads' = [leads EXCEPT ![i].closed_at = "closed"]
  /\ disturbances' = disturbances + 1
  /\ UNCHANGED <<startVars, localVars, pc, result, calls, dispVars>>

Next ==
  \/ \E p \in Proc : Start(p)
  \/ \E p \in Proc : FindPipeline(p)
  \/ \E p \in Proc : FindBusiness(p)
  \/ \E p \in Proc : FindInputStage(p)
  \/ \E p \in Proc : CountOpenLeads(p)
  \/ \E p \in Proc : FetchExisting(p)
  \/ \E p \in Proc : InsertLead(p)
  \/ \E p \in Proc : PreviousStages(p)
  \/ \E p \in Proc : NextStages(p)
  \/ \E p \in Proc : GetMessages(p)
  \/ \E p \in Proc : PostWebhook(p)
  \/ \E i \in 1..Len(leads) : CloseLead(i)

Spec == Init /\ [][Next]_vars

\* Deliveries that do not overlap: a delivery arrives only when every
\* earlier invocation of the handler has returned.
StartAlone(p) ==
  /\ \A q \in Proc : pc[q] \in {"idle", "done"}
  /\ Start(p)

NextSeq ==
  \/ \E p \in Proc : StartAlone(p)
  \/ \E p \in Proc : FindPipeline(p)
  \/ \E p \in Proc : FindBusiness(p)
  \/ \E p \in Proc : FindInputStage(p)
  \/ \E p \in Proc : CountOpenLeads(p)
  \/ \E p \in Proc : FetchExisting(p)
  \/ \E p \in Proc : InsertLead(p)
  \/ \E p \in Proc : PreviousStages(p)
  \/ \E p \in Proc : NextStages(p)
  \/ \E p \in Proc : GetMessages(p)
  \/ \E p \in Proc : PostWebhook(p)
  \/ \E i \in 1..Len(leads) : CloseLead(i)

SeqSpec == Init /\ [][NextSeq]_vars

\* a step of the handler itself: one of its awaited store calls settles
HandlerStep(p) ==
  \/ FindPipeline(p) \/ FindBusiness(p) \/ FindInputStage(p)
  \/ CountOpenLeads(p) \/ FetchExisting(p) \/ InsertLead(p)
  \/ PreviousStages(p) \/ NextStages(p)

\* The record store answers every query (with rows or with an error), so an
\* awaited store call eventually settles.  Nothing is assumed of the HTTP
\* peers: the message fetch and the POST of the dispatcher may hang forever.
FairSeqSpec == SeqSpec /\ \A p \in Proc : WF_vars(HandlerStep(p))

\* -------------------------------------------- the dispatcher on its own
\* stages handed to executeStageWebhook: with a webhook_url, with none
\* (null), with the empty string
DispatchStages == { 12, 61, 62 }
\* pipelines handed to executeStageWebhook: with and without a channel id
DispatchPipelines == { 1, 7 }
\* leads handed to executeStageWebhook: rows with and without conversation
\* id and phone number, and the null that getOrCreateLead can return
DispatchLeads ==
  { [id |-> 1, phone_number |-> ph, closed_at |-> NULL, pipeline_stage_id |-> 12,
     value |-> 0, business_id |-> 1, business_employee_id |-> 0,
     whatsapp_conversation_id |-> cv] :
       ph \in { NULL, "", "A" }, cv \in { NULL, "", "c1" } }
  \cup { NullLead }

\* executeStageWebhook(stage, { lead, business, pipeline, ... }) called
\* directly: every call of a behaviour is handed the same arguments
DispatchInit ==
  /\ event = NoEvent
  /\ stageRows = Stages
  /\ dto = NoDto
  /\ leads = << >>
  /\ disturbances = 0
  /\ pc = [p \in Proc |-> "idle"]
  /\ req = [p \in Proc |-> NoEvent]
  /\ \E pl \in DispatchPipelines : pipeline = [p \in Proc |-> pl]
  /\ business = [p \in Proc |-> 1]
  /\ \E s \in DispatchStages : stage = [p \in Proc |-> s]
  /\ count = [p \in Proc |-> 0]
  /\ \E l \in DispatchLeads : lead = [p \in Proc |-> l]
  /\ previousStages = [p \in Proc |-> << >>]
  /\ nextStages = [p \in Proc |-> << >>]
  /\ result = [p \in Proc |-> NoResult]
  /\ calls = [p \in Proc |-> [c \in AllCalls |-> "none"]]
  /\ dpc = [p \in Proc |-> "none"]
  /\ messages = [p \in Proc |-> << >>]
  /\ fetches = [p \in Proc |-> 0]
  /\ posts = [p \in Proc |-> << >>]
  /\ openAtStart = [p \in Proc |-> 0]
  /\ lenAtStart = [p \in Proc |-> 0]
  /\ GuardUnused
  /\ CalendarUnused
  /\ CacheUnused
  /\ DealsUnused

\* a call of executeStageWebhook runs to its first await
CallExecuteStageWebhook(p) ==
  /\ dpc[p] = "none"
  /\ UNCHANGED <<envVars, startVars, localVars, pc, result, calls>>
  /\ ExecuteStageWebhook(p)

DispatchNext ==
  \/ \E p \in Proc : CallExecuteStageWebhook(p)
  \/ \E p \in Proc : GetMessages(p)
  \/ \E p \in Proc : PostWebhook(p)

DispatchSpec == DispatchInit /\ [][DispatchNext]_vars

\* ------------------------------------------- getRelatedStages on its own
\* pipelines of the stage tables drawn for getRelatedStages
RelatedPipelines == { 1, 2 }
\* the stage of pipeline pl at position pos; ids run against the positions
StageAt(pl, pos) ==
  [id |-> 10 * pl + (MaxPosition + 1 - pos), pipeline_id |-> pl, business_id |-> 1,
   position |-> pos, is_input |-> FALSE, webhook_url |-> NULL]
\* every pipeline_stages table over these pipelines and positions in which
\* the positions within a pipeline are unique
StageTables ==
  { { StageAt(c[1], c[2]) : c \in S } :
      S \in (SUBSET (RelatedPipelines \X (1..MaxPosition))) \ { {} } }

\* handleWhatsappWebhook at `await this.getRelatedStages(pipeline.id,
\* stage.position)`: any table, any pipeline id, the position of any stage
RelatedInit ==
  /\ event = NoEvent
  /\ stageRows \in StageTables
  /\ dto = NoDto
  /\ leads = << ExistingLead(1, "A", NULL) >>
  /\ disturbances = 0
  /\ pc = [p \in Proc |-> IF p = 1 THEN "related" ELSE "idle"]
  /\ req = [p \in Proc |-> NoEvent]
  /\ \E pl \in RelatedPipelines : pipeline = [p \in Proc |-> IF p = 1 THEN pl ELSE 0]
  /\ business = [p \in Proc |-> IF p = 1 THEN 1 ELSE 0]
  /\ \E s \in stageRows : stage = [p \in Proc |-> IF p = 1 THEN s.id ELSE 0]
  /\ count = [p \in Proc |-> IF p = 1 THEN 1 ELSE 0]
  /\ lead = [p \in Proc |-> IF p = 1 THEN leads[1] ELSE NullLead]
  /\ previousStages = [p \in Proc |-> << >>]
  /\ nextStages = [p \in Proc |-> << >>]
  /\ result = [p \in Proc |-> NoResult]
  /\ calls = [p \in Proc |-> [c \in AllCalls |-> "none"]]
  /\ dpc = [p \in Proc |-> "none"]
  /\ messages = [p \in Proc |-> << >>]
  /\ fetches = [p \in Proc |-> 0]
  /\ posts = [p \in Proc |-> << >>]
  /\ openAtStart = [p \in Proc |-> 0]
  /\ lenAtStart = [p \in Proc |-> 0]
  /\ GuardUnused
  /\ CalendarUnused
  /\ CacheUnused
  /\ DealsUnused

RelatedNext ==
  \/ \E p \in Proc : PreviousStages(p)
  \/ \E p \in Proc : NextStages(p)

RelatedSpec == RelatedInit /\ [][RelatedNext]_vars

\* ---------------------------------------------------- changeLeadStage
\* rows of pipeline_stage_leads with .eq('id', id)
LeadsById(rows, id) == { i \in 1..Len(rows) : rows[i].id = id }
\* rows of pipeline_stages with .eq('id', id)
StagesById(id) == { s \in stageRows : s.id = id }
\* .select('id, pipeline_stage_id'): the two columns of the row
IdAndStage(row) ==
  [NullLead EXCEPT !.id = row.id, !.pipeline_stage_id = row.pipeline_stage_id]

\* an update without the .eq('id', ...) filter
UpdateStageAllRows(rows, id, stageId) ==
  [i \in 1..Len(rows) |-> [rows[i] EXCEPT !.pipeline_stage_id = stageId]]

\* an update that also clears closed_at
UpdateStageReopening(rows, id, stageId) ==
  [i \in 1..Len(rows) |->
     IF rows[i].id = id
       THEN [rows[i] EXCEPT !.pipeline_stage_id = stageId, !.closed_at = NULL]
       ELSE rows[i]]

\* .update({ pipeline_stage_id: stageId }).eq('id', id)
UpdateStage(rows, id, stageId) ==
  [i \in 1..Len(rows) |->
     IF rows[i].id = id THEN [rows[i] EXCEPT !.pipeline_stage_id = stageId]
                        ELSE rows[i]]

\* the `dto` argument of invocation p: the one body of the behaviour, or
\* the body the invocation was started with when requests differ
Dto(p) == IF req[p] = NoEvent THEN dto ELSE req[p]

\* A change-stage request arrives: changeLeadStage validates the body and
\* runs to its first await.  Invocations are numbered in order of arrival.
ChangeLeadStage(p) ==
  /\ pc[p] = "idle"
  /\ \A q \in Proc : q < p => pc[q] # "idle"
  /\ IF InvalidId(dto.leadId)
       THEN Return(p, ErrorResult(MsgInvalidLeadId))
     ELSE IF InvalidId(dto.newPipelineStageId)
       THEN Return(p, ErrorResult(MsgInvalidStageId))
     ELSE Await(p, "leadCheck")
  /\ UNCHANGED <<envVars, startVars, localVars, calls, dispVars>>

\* the lead lookup (.eq('id', dto.leadId).single()) completes
LeadCheck(p) ==
  /\ pc[p] = "leadCheck"
  /\ \E out \in Outcomes :
       /\ Called(p, "leads.byId", out)
       /\ LET found == LeadsById(leads, Dto(p).leadId.v)
          IN IF out = "error" \/ Cardinality(found) # 1
               THEN /\ Return(p, FailedResult(MsgLeadNotFound,
                                 IF out = "error" THEN StoreErrorText ELSE NoRowsText))
                    /\ UNCHANGED lead
               ELSE /\ lead' = [lead EXCEPT ![p] =
                                  IdAndStage(leads[CHOOSE i \in found : TRUE])]
                    /\ Await(p, "stageCheck")
  /\ UNCHANGED <<leads, startVars, pipeline, business, stage, count,
                 previousStages, nextStages, dispVars>>

\* a stage lookup that is never followed by the already-in-stage test
StageCheckAlwaysUpdates(p) ==
  /\ pc[p] = "stageCheck"
  /\ \E out \in Outcomes :
       /\ Called(p, "stages.byId", out)
       /\ IF out = "error" \/ Cardinality(StagesById(Dto(p).newPipelineStageId.v)) # 1
            THEN Return(p, FailedResult(MsgNewStageNotFound,
                             IF out = "error" THEN StoreErrorText ELSE NoRowsText))
            ELSE Await(p, "update")
  /\ UNCHANGED <<leads, startVars, localVars, dispVars>>

\* a stage lookup whose answer is not tested
StageCheckUnverified(p) ==
  /\ pc[p] = "stageCheck"
  /\ \E out \in Outcomes :
       /\ Called(p, "stages.byId", out)
       /\ IF lead[p].pipeline_stage_id = Dto(p).newPipelineStageId.v
            THEN Return(p, SuccessResult(MsgAlreadyInStage))
            ELSE Await(p, "update")
  /\ UNCHANGED <<leads, startVars, localVars, dispVars>>

\* the stage lookup (.eq('id', dto.newPipelineStageId).single()) completes,
\* followed by the test whether the lead is already in the target stage
StageCheck(p) ==
  /\ pc[p] = "stageCheck"
  /\ \E out \in Outcomes :
       /\ Called(p, "stages.byId", out)
       /\ IF out = "error" \/ Cardinality(StagesById(Dto(p).newPipelineStageId.v)) # 1
            THEN Return(p, FailedResult(MsgNewStageNotFound,
                             IF out = "error" THEN StoreErrorText ELSE NoRowsText))
          ELSE IF lead[p].pipeline_stage_id = Dto(p).newPipelineStageId.v
            THEN Return(p, SuccessResult(MsgAlreadyInStage))
          ELSE Await(p, "update")
  /\ UNCHANGED <<leads, startVars, localVars, dispVars>>

\* the update (.update(...).eq('id', dto.leadId).select(...).single())
\* completes; a statement the store rejects writes nothing
UpdateLeadStage(p) ==
  /\ pc[p] = "update"
  /\ \E out \in Outcomes :
       /\ Called(p, "leads.update", out)
       /\ IF out = "error"
            THEN /\ Return(p, FailedResult(MsgUpdateFailed, StoreErrorText))
                 /\ UNCHANGED leads
            ELSE /\ leads' = UpdateStage(leads, Dto(p).leadId.v, Dto(p).newPipelineStageId.v)
                 /\ Return(p, SuccessResult(MsgStageUpdated))
  /\ UNCHANGED <<startVars, localVars, dispVars>>

\* change-stage requests with one body, against a store that holds a closed
\* and an open lead, both in stage 13
ChangeInit ==
  /\ event = NoEvent
  /\ stageRows = Stages
  /\ dto \in Dtos
  /\ leads = << ExistingLead(1, "A", "closed"), ExistingLead(2, "B", NULL) >>
  /\ disturbances = 0
  /\ pc = [p \in Proc |-> "idle"]
  /\ req = [p \in Proc |-> NoEvent]
  /\ pipeline = [p \in Proc |-> 0]
  /\ business = [p \in Proc |-> 0]
  /\ stage = [p \in Proc |-> 0]
  /\ count = [p \in Proc |-> 0]
  /\ lead = [p \in Proc |-> NullLead]
  /\ previousStages = [p \in Proc |-> << >>]
  /\ nextStages = [p \in Proc |-> << >>]
  /\ result = [p \in Proc |-> NoResult]
  /\ calls = [p \in Proc |-> [c \in AllCalls |-> "none"]]
  /\ dpc = [p \in Proc |-> "none"]
  /\ messages = [p \in Proc |-> << >>]
  /\ fetches = [p \in Proc |-> 0]
  /\ posts = [p \in Proc |-> << >>]
  /\ openAtStart = [p \in Proc |-> 0]
  /\ lenAtStart = [p \in Proc |-> 0]
  /\ GuardUnused
  /\ CalendarUnused
  /\ CacheUnused
  /\ DealsUnused

ChangeNext ==
  \/ \E p \in Proc : ChangeLeadStage(p)
  \/ \E p \in Proc : LeadCheck(p)
  \/ \E p \in Proc : StageCheck(p)
  \/ \E p \in Proc : UpdateLeadStage(p)

ChangeSpec == ChangeInit /\ [][ChangeNext]_vars

\* ------------------------------------------ reply, availability, booking
\* the channel id the embedded select pipeline_stages(pipelines(
\* whatsapp_phone_number_id)) yields for a lead row
ChannelOf(row) ==
  IF StagesById(row.pipeline_stage_id) = {} THEN NULL
  ELSE PipelineRow(StageRow(row.pipeline_stage_id).pipeline_id).whatsapp_phone_number_id

\* A reply request arrives: replyWhatsappMessage validates the body and
\* runs to the lead lookup.
ReplyWhatsappMessage(p) ==
  /\ pc[p] = "idle"
  /\ \A q \in Proc : q < p => pc[q] # "idle"
  /\ IF InvalidText(dto.text)
       THEN Return(p, ErrorResult(MsgInvalidText))
     ELSE IF InvalidId(dto.leadId)
       THEN Return(p, ErrorResult(MsgInvalidLeadId))
     ELSE Await(p, "replyLead")
  /\ UNCHANGED <<envVars, startVars, localVars, calls, dispVars>>

\* getLeadWithPipeline's query (.eq('id', leadId).single()) completes
ReplyLead(p) ==
  /\ pc[p] = "replyLead"
  /\ \E out \in Outcomes :
       /\ Called(p, "leads.byId", out)
       /\ LET found == LeadsById(leads, dto.leadId.v)
          IN IF out = "error" \/ Cardinality(found) # 1
               THEN Return(p, FailedResult(MsgErrorGettingLead,
                                IF out = "error" THEN StoreErrorText ELSE NoRowsText))
             ELSE LET row == leads[CHOOSE i \in found : TRUE]
                  IN IF Falsy(ChannelOf(row)) \/ Falsy(row.phone_number)
                       THEN Return(p, ErrorResult(MsgMissingChannel))
                       ELSE Await(p, "replySend")
  /\ UNCHANGED <<leads, startVars, localVars, dispVars>>

\* sendWhatsappMessage: the send settles
ReplySend(p) ==
  /\ pc[p] = "replySend"
  /\ \E out \in Outcomes :
       /\ Called(p, "whatsapp.send", out)
       /\ Return(p, IF out = "ok" THEN SuccessResult(MsgReplySent)
                                  ELSE FailedResult(MsgReplyFailed, StoreErrorText))
  /\ UNCHANGED <<leads, startVars, localVars, dispVars>>

\* ------------------------------------------------------ the calendar client
\* Times are minutes counted from local midnight of the requested day; the
\* epoch is no later than minute 0 and the clock never reads less.
\* the validity getValidAccessToken demands of a stored token (5 * 60 * 1000 ms)
TokenBufferMinutes == 5
\* the distance of two candidate slots (30 * 60000 ms)
SlotStepMinutes == 30
\* the number of suggestions at which findAvailableSlots stops
MaxSuggestions == 5

\* the access token a connection row holds and the body of a successful
\* answer of the token endpoint (expires_in counted in minutes)
StoredToken == "t0"
TokenResponse == [access_token |-> "t1", expires_in |-> 60]

\* `expiresAt`: a missing token_expires_at counts as the epoch
ExpiresAt(c) == IF c.token_expires_at = NoExpiry THEN 0 ELSE c.token_expires_at

\* the validity test with the buffer not strict
TokenValidInclusive(c) == ExpiresAt(c) - now >= TokenBufferMinutes

\* `expiresAt.getTime() - now.getTime() > 5 * 60 * 1000`
TokenValid(c) == ExpiresAt(c) - now > TokenBufferMinutes

\* rows with .eq('business_employee_id', ..).eq('business_id', ..); a lead
\* without employee (0) matches no row
ConnectionsOf(rows, l) ==
  { i \in 1..Len(rows) : /\ rows[i].business_employee_id = l.business_employee_id
                         /\ rows[i].business_id = l.business_id }

\* .update({ access_token, token_expires_at }).eq('id', connection.id)
UpdateToken(rows, id, token, expiresAt) ==
  [i \in 1..Len(rows) |->
     IF rows[i].id = id
       THEN [rows[i] EXCEPT !.access_token = token, !.token_expires_at = expiresAt]
       ELSE rows[i]]

\* the busy intervals the free/busy endpoint reports for [timeMin, timeMax)
FreeBusy(timeMin, timeMax) == { b \in busy : b.start < timeMax /\ b.end > timeMin }

\* the locals of handleWhatsappWebhook, which no meeting operation uses
intakeLocals == <<pipeline, business, stage, count, previousStages, nextStages>>

\* the failure object of an operation: checkAvailabilityForMeeting answers
\* { isAvailable: false, message }, bookMeeting { status: 'error', message }
FailureOf(op, msg) ==
  IF op = "availability"
    THEN AvailabilityResult("false", msg, << >>)
    ELSE ErrorResult(msg)

\* The lead lookup of a meeting operation settles (.eq('id', dto.leadId)
\* .single()); with a lead, the connection lookup is issued.
LeadLookup(p, op, connAt) ==
  /\ \E out \in Outcomes :
       /\ Called(p, "leads.byId", out)
       /\ LET found == LeadsById(leads, dto.leadId.v)
          IN IF out = "error" \/ Cardinality(found) # 1
               THEN /\ Return(p, FailureOf(op, MsgLeadNotFound))
                    /\ UNCHANGED lead
               ELSE /\ lead' = [lead EXCEPT ![p] = leads[CHOOSE i \in found : TRUE]]
                    /\ Await(p, connAt)
  /\ UNCHANGED <<leads, meetFrame, tokenVars, slotVars, intakeLocals, dispVars>>

\* the connection lookup that goes on without a connection row
ConnectionLookupUnchecked(p, op, refreshAt, callAt) ==
  /\ \E out \in Outcomes :
       /\ Called(p, "connections.select", out)
       /\ UNCHANGED <<connection, accessToken>>
       /\ Await(p, callAt)
  /\ UNCHANGED <<leads, meetFrame, connections, slotVars, localVars, dispVars>>

\* The connection lookup settles.  With a connection, getValidAccessToken
\* runs to its first await: it returns the stored token, and the caller
\* issues its calendar call; or it returns null; or it posts the refresh.
ConnectionLookup(p, op, refreshAt, callAt) ==
  /\ \E out \in Outcomes :
       /\ Called(p, "connections.select", out)
       /\ LET found == ConnectionsOf(connections, lead[p])
          IN IF out = "error" \/ Cardinality(found) # 1
               THEN /\ Return(p, FailureOf(op, MsgNoCalendar))
                    /\ UNCHANGED <<connection, accessToken>>
             ELSE LET c == connections[CHOOSE i \in found : TRUE]
                  IN /\ connection' = [connection EXCEPT ![p] = c]
                     /\ IF TokenValid(c)
                          THEN /\ accessToken' = [accessToken EXCEPT ![p] = c.access_token]
                               /\ IF Falsy(c.access_token)
                                    THEN Return(p, FailureOf(op, MsgNoGoogleAuth))
                                    ELSE Await(p, callAt)
                        ELSE IF Falsy(c.refresh_token) \/ ~credentials
                          THEN /\ UNCHANGED accessToken
                               /\ Return(p, FailureOf(op, MsgNoGoogleAuth))
                        ELSE /\ UNCHANGED accessToken
                             /\ Await(p, refreshAt)
  /\ UNCHANGED <<leads, meetFrame, connections, slotVars, localVars, dispVars>>

\* The POST to the token endpoint settles: on failure getValidAccessToken
\* returns null, otherwise it issues the update of the connection row.
RefreshToken(p, op, saveAt) ==
  /\ \E out \in Outcomes :
       /\ Called(p, "oauth.token", out)
       /\ IF out = "error"
            THEN /\ Return(p, FailureOf(op, MsgNoGoogleAuth))
                 /\ UNCHANGED accessToken
            ELSE /\ accessToken' = [accessToken EXCEPT ![p] = TokenResponse.access_token]
                 /\ Await(p, saveAt)
  /\ UNCHANGED <<leads, meetFrame, connections, connection, slotVars, localVars, dispVars>>

\* an update whose failure ends getValidAccessToken with null
SaveTokenOrNull(p, callAt) ==
  /\ \E out \in Outcomes :
       /\ Called(p, "connections.update", out)
       /\ connections' =
            IF out = "ok"
              THEN UpdateToken(connections, connection[p].id, TokenResponse.access_token,
                               now + TokenResponse.expires_in)
              ELSE connections
       /\ IF out = "ok"
            THEN Await(p, callAt)
            ELSE Return(p, ErrorResult(MsgNoGoogleAuth))
  /\ UNCHANGED <<leads, meetFrame, connection, accessToken, slotVars, localVars, dispVars>>

\* The update of the connection row settles; a failure is only logged.
\* getValidAccessToken returns the new token and the caller issues its
\* calendar call.
SaveToken(p, callAt) ==
  /\ \E out \in Outcomes :
       /\ Called(p, "connections.update", out)
       /\ connections' =
            IF out = "ok"
              THEN UpdateToken(connections, connection[p].id, TokenResponse.access_token,
                               now + TokenResponse.expires_in)
              ELSE connections
       /\ Await(p, callAt)
  /\ UNCHANGED <<leads, meetFrame, connection, accessToken, slotVars, localVars, dispVars>>

\* ------------------------------------------- checkAvailabilityForMeeting
\* its `{ isAvailable: false, message }` objects
Unavailable(msg) == AvailabilityResult("false", msg, << >>)

\* An availability request arrives: checkAvailabilityForMeeting issues the
\* lead lookup (the body is not validated).
CheckAvailabilityForMeeting(p) ==
  /\ pc[p] = "idle"
  /\ \A q \in Proc : q < p => pc[q] # "idle"
  /\ Await(p, "availLead")
  /\ UNCHANGED <<envVars, startVars, localVars, calls, dispVars>>

AvailLead(p) == pc[p] = "availLead" /\ LeadLookup(p, "availability", "availConn")

AvailConnection(p) ==
  pc[p] = "availConn" /\ ConnectionLookup(p, "availability", "availRefresh", "availFreeBusy")

AvailRefresh(p) == pc[p] = "availRefresh" /\ RefreshToken(p, "availability", "availSave")

AvailSave(p) == pc[p] = "availSave" /\ SaveToken(p, "availFreeBusy")

\* the window [date, date + duration) of GoogleService.checkAvailability
TimeMin == meetingDto.date
TimeMax == meetingDto.date + meetingDto.duration

\* the window query that starts the slot search whatever it reported
AvailFreeBusyAlwaysSearching(p) ==
  /\ pc[p] = "availFreeBusy"
  /\ \E out \in Outcomes :
       /\ Called(p, "calendar.freeBusy", out)
       /\ IF out = "error"
            THEN Return(p, Unavailable(MsgAvailabilityError))
            ELSE Await(p, "availSlots")
  /\ UNCHANGED <<leads, meetFrame, tokenVars, slotVars, localVars, dispVars>>

\* GoogleService.checkAvailability: the free/busy query of the window
\* settles.  A failure is rethrown to checkAvailabilityForMeeting's catch;
\* a busy window makes findAvailableSlots issue the query of the whole day.
AvailFreeBusy(p) ==
  /\ pc[p] = "availFreeBusy"
  /\ \E out \in Outcomes :
       /\ Called(p, "calendar.freeBusy", out)
       /\ IF out = "error"
            THEN Return(p, Unavailable(MsgAvailabilityError))
          ELSE IF Cardinality(FreeBusy(TimeMin, TimeMax)) = 0
            THEN Return(p, AvailabilityResult("true", MsgSlotAvailable, << >>))
          ELSE Await(p, "availSlots")
  /\ UNCHANGED <<leads, meetFrame, tokenVars, slotVars, localVars, dispVars>>

\* findAvailableSlots: the free/busy query of the whole day settles.  A
\* failure makes it return no slot; otherwise the search starts at the
\* first working minute.
AvailSlots(p) ==
  /\ pc[p] = "availSlots"
  /\ \E out \in Outcomes :
       /\ Called(p, "calendar.dayFreeBusy", out)
       /\ IF out = "error"
            THEN /\ Return(p, Unavailable(MsgSlotOccupied))
                 /\ UNCHANGED slotVars
            ELSE /\ busyIntervals' = [busyIntervals EXCEPT ![p] = FreeBusy(0, 24 * 60)]
                 /\ currentSlot' = [currentSlot EXCEPT ![p] = meetingDto.minWorkingHour * 60]
                 /\ suggested' = [suggested EXCEPT ![p] = << >>]
                 /\ Await(p, "slotLoop")
  /\ UNCHANGED <<leads, meetFrame, tokenVars, localVars, dispVars>>

\* `slotStart < bEnd && slotEnd > bStart` for some busy interval
IsBusy(intervals, slotStart, slotEnd) ==
  \E b \in intervals : slotStart < b.end /\ slotEnd > b.start

\* the loop that suggests busy slots too
FindSlotIgnoringBusy(p) ==
  /\ pc[p] = "slotLoop"
  /\ LET slotStart == currentSlot[p]
         slotEnd == slotStart + meetingDto.duration
         found == IF slotStart >= now THEN Append(suggested[p], slotStart)
                                      ELSE suggested[p]
     IN IF slotEnd <= meetingDto.maxWorkingHour * 60
          THEN /\ suggested' = [suggested EXCEPT ![p] = found]
               /\ IF Len(found) >= MaxSuggestions
                    THEN /\ Return(p, AvailabilityResult("false", MsgSlotOccupied, found))
                         /\ UNCHANGED currentSlot
                    ELSE /\ currentSlot' = [currentSlot EXCEPT
                                              ![p] = slotStart + SlotStepMinutes]
                         /\ UNCHANGED <<pc, result>>
          ELSE /\ Return(p, AvailabilityResult("false", MsgSlotOccupied, suggested[p]))
               /\ UNCHANGED <<currentSlot, suggested>>
  /\ UNCHANGED <<envVars, meetFrame, tokenVars, busyIntervals, localVars, calls, dispVars>>

\* One turn of the loop of findAvailableSlots, or its end: the slot is
\* kept when it is neither busy nor past, the search stops at five slots
\* or at the end of the working hours, and checkAvailability returns.
FindSlot(p) ==
  /\ pc[p] = "slotLoop"
  /\ LET slotStart == currentSlot[p]
         slotEnd == slotStart + meetingDto.duration
         isBusy == IsBusy(busyIntervals[p], slotStart, slotEnd)
         isPast == slotStart < now
         found == IF ~isBusy /\ ~isPast THEN Append(suggested[p], slotStart)
                                        ELSE suggested[p]
     IN IF slotEnd <= meetingDto.maxWorkingHour * 60
          THEN /\ suggested' = [suggested EXCEPT ![p] = found]
               /\ IF Len(found) >= MaxSuggestions
                    THEN /\ Return(p, AvailabilityResult("false", MsgSlotOccupied, found))
                         /\ UNCHANGED currentSlot
                    ELSE /\ currentSlot' = [currentSlot EXCEPT
                                              ![p] = slotStart + SlotStepMinutes]
                         /\ UNCHANGED <<pc, result>>
          ELSE /\ Return(p, AvailabilityResult("false", MsgSlotOccupied, suggested[p]))
               /\ UNCHANGED <<currentSlot, suggested>>
  /\ UNCHANGED <<envVars, meetFrame, tokenVars, busyIntervals, localVars, calls, dispVars>>

\* ------------------------------------------------------------ bookMeeting
\* A booking request arrives: bookMeeting issues the lead lookup.
BookMeeting(p) ==
  /\ pc[p] = "idle"
  /\ \A q \in Proc : q < p => pc[q] # "idle"
  /\ Await(p, "bookLead")
  /\ UNCHANGED <<envVars, startVars, localVars, calls, dispVars>>

BookLead(p) == pc[p] = "bookLead" /\ LeadLookup(p, "booking", "bookConn")

\* the booking that skips the connection test
BookConnectionUnchecked(p) ==
  pc[p] = "bookConn" /\ ConnectionLookupUnchecked(p, "booking", "bookRefresh", "bookEvent")

BookConnection(p) ==
  pc[p] = "bookConn" /\ ConnectionLookup(p, "booking", "bookRefresh", "bookEvent")

BookRefresh(p) == pc[p] = "bookRefresh" /\ RefreshToken(p, "booking", "bookSave")

BookSave(p) == pc[p] = "bookSave" /\ SaveToken(p, "bookEvent")

\* GoogleService.bookMeeting: the event creation settles; a failure is
\* rethrown to bookMeeting's catch
BookEvent(p) ==
  /\ pc[p] = "bookEvent"
  /\ \E out \in Outcomes :
       /\ Called(p, "calendar.events", out)
       /\ Return(p, IF out = "ok" THEN SuccessResult(MsgMeetingBooked)
                                  ELSE FailedResult(MsgBookFailed, StoreErrorText))
  /\ UNCHANGED <<leads, meetFrame, tokenVars, slotVars, localVars, dispVars>>

\* ------------------------------------------------ all the core operations
\* events and bodies of the requests: an event of phone number A, whose
\* lead is closed, and of B, whose lead is open; bodies naming either lead
CoreEvents == { e \in Events : e.phone_number_id = "pn1" /\ e.phone_number # NULL }
CoreDtos == { [leadId |-> Num(i), newPipelineStageId |-> Num(12), text |-> Text(2)] :
                i \in { 1, 2 } }

\* a row of business_employee_oauth_connections written before the
\* behaviour begins
ConnectionRow(id, employee, expiresAt, refreshToken) ==
  [id |-> id, business_employee_id |-> employee, business_id |-> 1,
   access_token |-> StoredToken, refresh_token |-> refreshToken,
   token_expires_at |-> expiresAt]

\* a quarter to ten
Morning == 9 * 60 + 45
\* an hour of the calendar that is taken, from ten to eleven
TakenHour == [start |-> 10 * 60, end |-> 11 * 60]
\* a half-hour meeting at ten, working hours from nine
TenOClock ==
  [date |-> 10 * 60, duration |-> SlotStepMinutes, minWorkingHour |-> 9,
   maxWorkingHour |-> 9 + MaxHours]

\* the employee of lead 2 has a calendar connected whose token has expired
CoreCalendar ==
  /\ now = Morning
  /\ credentials = TRUE
  /\ busy = { TakenHour }
  /\ meetingDto = TenOClock
  /\ connections = << ConnectionRow(1, 2, Morning, "r0") >>
  /\ MeetingLocalsInit

CoreInit ==
  /\ event \in CoreEvents
  /\ stageRows = Stages
  /\ dto \in CoreDtos
  /\ leads = << ExistingLead(1, "A", "closed"), ExistingLead(2, "B", NULL) >>
  /\ disturbances = 0
  /\ pc = [p \in Proc |-> "idle"]
  /\ req = [p \in Proc |-> NoEvent]
  /\ pipeline = [p \in Proc |-> 0]
  /\ business = [p \in Proc |-> 0]
  /\ stage = [p \in Proc |-> 0]
  /\ count = [p \in Proc |-> 0]
  /\ lead = [p \in Proc |-> NullLead]
  /\ previousStages = [p \in Proc |-> << >>]
  /\ nextStages = [p \in Proc |-> << >>]
  /\ result = [p \in Proc |-> NoResult]
  /\ calls = [p \in Proc |-> [c \in AllCalls |-> "none"]]
  /\ dpc = [p \in Proc |-> "none"]
  /\ messages = [p \in Proc |-> << >>]
  /\ fetches = [p \in Proc |-> 0]
  /\ posts = [p \in Proc |-> << >>]
  /\ openAtStart = [p \in Proc |-> 0]
  /\ lenAtStart = [p \in Proc |-> 0]
  /\ GuardUnused
  /\ CoreCalendar
  /\ CacheUnused
  /\ DealsUnused

\* no handler is running
Quiet == \A q \in Proc : pc[q] \in {"idle", "done"}

\* Requests to the five entry points, one at a time, with the dispatches
\* running in the background; no external close.
CoreNext ==
  \/ \E p \in Proc : StartAlone(p)
  \/ \E p \in Proc : Quiet /\ ChangeLeadStage(p)
  \/ \E p \in Proc : Quiet /\ ReplyWhatsappMessage(p)
  \/ \E p \in Proc : Quiet /\ CheckAvailabilityForMeeting(p)
  \/ \E p \in Proc : Quiet /\ BookMeeting(p)
  \/ \E p \in Proc : FindPipeline(p)
  \/ \E p \in Proc : FindBusiness(p)
  \/ \E p \in Proc : FindInputStage(p)
  \/ \E p \in Proc : CountOpenLeads(p)
  \/ \E p \in Proc : FetchExisting(p)
  \/ \E p \in Proc : InsertLead(p)
  \/ \E p \in Proc : PreviousStages(p)
  \/ \E p \in Proc : NextStages(p)
  \/ \E p \in Proc : GetMessages(p)
  \/ \E p \in Proc : PostWebhook(p)
  \/ \E p \in Proc : LeadCheck(p)
  \/ \E p \in Proc : StageCheck(p)
  \/ \E p \in Proc : UpdateLeadStage(p)
  \/ \E p \in Proc : ReplyLead(p)
  \/ \E p \in Proc : ReplySend(p)
  \/ \E p \in Proc : AvailLead(p)
  \/ \E p \in Proc : AvailConnection(p)
  \/ \E p \in Proc : AvailRefresh(p)
  \/ \E p \in Proc : AvailSave(p)
  \/ \E p \in Proc : AvailFreeBusy(p)
  \/ \E p \in Proc : AvailSlots(p)
  \/ \E p \in Proc : FindSlot(p)
  \/ \E p \in Proc : BookLead(p)
  \/ \E p \in Proc : BookConnection(p)
  \/ \E p \in Proc : BookRefresh(p)
  \/ \E p \in Proc : BookSave(p)
  \/ \E p \in Proc : BookEvent(p)

CoreSpec == CoreInit /\ [][CoreNext]_vars

\* ------------------------------------------ the two meeting operations
\* the contents of the connections table: none, one row of employee 2
\* with an expiry around the five-minute buffer and with or without a
\* refresh token, and two rows of employee 2
ExpiryValues ==
  { NoExpiry, Morning + TokenBufferMinutes - 1, Morning + TokenBufferMinutes,
    Morning + TokenBufferMinutes + 1 }
ConnectionTables ==
  { << >> }
  \cup { << ConnectionRow(1, 2, e, r) >> : e \in ExpiryValues, r \in { NULL, "r0" } }
  \cup { << ConnectionRow(1, 2, Morning, "r0"), ConnectionRow(2, 2, Morning, "r0") >> }

\* bodies naming lead 1 (employee without connection), lead 2 and no lead
MeetingDtos ==
  { [leadId |-> Num(i), newPipelineStageId |-> Undefined, text |-> Undefined] :
      i \in { 1, 2, 9 } }

MeetingInit ==
  /\ event = NoEvent
  /\ stageRows = Stages
  /\ dto \in MeetingDtos
  /\ leads = << ExistingLead(1, "A", "closed"), ExistingLead(2, "B", NULL) >>
  /\ disturbances = 0
  /\ pc = [p \in Proc |-> "idle"]
  /\ req = [p \in Proc |-> NoEvent]
  /\ pipeline = [p \in Proc |-> 0]
  /\ business = [p \in Proc |-> 0]
  /\ stage = [p \in Proc |-> 0]
  /\ count = [p \in Proc |-> 0]
  /\ lead = [p \in Proc |-> NullLead]
  /\ previousStages = [p \in Proc |-> << >>]
  /\ nextStages = [p \in Proc |-> << >>]
  /\ result = [p \in Proc |-> NoResult]
  /\ calls = [p \in Proc |-> [c \in AllCalls |-> "none"]]
  /\ dpc = [p \in Proc |-> "none"]
  /\ messages = [p \in Proc |-> << >>]
  /\ fetches = [p \in Proc |-> 0]
  /\ posts = [p \in Proc |-> << >>]
  /\ openAtStart = [p \in Proc |-> 0]
  /\ lenAtStart = [p \in Proc |-> 0]
  /\ GuardUnused
  /\ CacheUnused
  /\ DealsUnused
  /\ now = Morning
  /\ credentials \in BOOLEAN
  /\ busy \in { {}, { TakenHour } }
  /\ meetingDto = TenOClock
  /\ connections \in ConnectionTables
  /\ MeetingLocalsInit

\* availability and booking requests, one at a time
MeetingNext ==
  \/ \E p \in Proc : Quiet /\ CheckAvailabilityForMeeting(p)
  \/ \E p \in Proc : Quiet /\ BookMeeting(p)
  \/ \E p \in Proc : AvailLead(p)
  \/ \E p \in Proc : AvailConnection(p)
  \/ \E p \in Proc : AvailRefresh(p)
  \/ \E p \in Proc : AvailSave(p)
  \/ \E p \in Proc : AvailFreeBusy(p)
  \/ \E p \in Proc : AvailSlots(p)
  \/ \E p \in Proc : FindSlot(p)
  \/ \E p \in Proc : BookLead(p)
  \/ \E p \in Proc : BookConnection(p)
  \/ \E p \in Proc : BookRefresh(p)
  \/ \E p \in Proc : BookSave(p)
  \/ \E p \in Proc : BookEvent(p)

MeetingSpec == MeetingInit /\ [][MeetingNext]_vars

\* ------------------------------------- GoogleService.checkAvailability
\* the calendars, requests and clock readings it is applied to
BusyCandidates ==
  { [start |-> 9 * 60, end |-> 9 * 60 + 30], [start |-> 9 * 60 + 45, end |-> 10 * 60 + 15],
    TakenHour, [start |-> 11 * 60 + 30, end |-> 12 * 60] }
WorkingWindows ==
  { [min |-> 9, max |-> 9 + h] : h \in 0..MaxHours } \cup { [min |-> 10, max |-> 9] }
AvailabilityDtos ==
  { [date |-> d, duration |-> n, minWorkingHour |-> w.min, maxWorkingHour |-> w.max] :
      d \in { 9 * 60, 10 * 60, 10 * 60 + 15 }, n \in { SlotStepMinutes, 45 },
      w \in WorkingWindows }

\* one availability request of lead 2, whose employee has a valid token
AvailabilityInit ==
  /\ event = NoEvent
  /\ stageRows = Stages
  /\ dto = [leadId |-> Num(2), newPipelineStageId |-> Undefined, text |-> Undefined]
  /\ leads = << ExistingLead(1, "A", "closed"), ExistingLead(2, "B", NULL) >>
  /\ disturbances = 0
  /\ pc = [p \in Proc |-> IF p = 1 THEN "idle" ELSE "done"]
  /\ req = [p \in Proc |-> NoEvent]
  /\ pipeline = [p \in Proc |-> 0]
  /\ business = [p \in Proc |-> 0]
  /\ stage = [p \in Proc |-> 0]
  /\ count = [p \in Proc |-> 0]
  /\ lead = [p \in Proc |-> NullLead]
  /\ previousStages = [p \in Proc |-> << >>]
  /\ nextStages = [p \in Proc |-> << >>]
  /\ result = [p \in Proc |-> NoResult]
  /\ calls = [p \in Proc |-> [c \in AllCalls |-> "none"]]
  /\ dpc = [p \in Proc |-> "none"]
  /\ messages = [p \in Proc |-> << >>]
  /\ fetches = [p \in Proc |-> 0]
  /\ posts = [p \in Proc |-> << >>]
  /\ openAtStart = [p \in Proc |-> 0]
  /\ lenAtStart = [p \in Proc |-> 0]
  /\ GuardUnused
  /\ CacheUnused
  /\ DealsUnused
  /\ now \in { 0, Morning }
  /\ credentials = TRUE
  /\ busy \in SUBSET BusyCandidates
  /\ meetingDto \in AvailabilityDtos
  /\ connections = << ConnectionRow(1, 2, 24 * 60, "r0") >>
  /\ MeetingLocalsInit

AvailabilityNext ==
  \/ \E p \in Proc : CheckAvailabilityForMeeting(p)
  \/ \E p \in Proc : AvailLead(p)
  \/ \E p \in Proc : AvailConnection(p)
  \/ \E p \in Proc : AvailFreeBusy(p)
  \/ \E p \in Proc : AvailSlots(p)
  \/ \E p \in Proc : FindSlot(p)

AvailabilitySpec == AvailabilityInit /\ [][AvailabilityNext]_vars

\* a handler that is not waiting for a call runs on: the loop of
\* findAvailableSlots is synchronous
FairAvailabilitySpec == AvailabilitySpec /\ \A p \in Proc : WF_vars(FindSlot(p))

\* ---------------------------------------------------- SignatureService
\* Texts are sequences of characters.  The digests are written with three
\* digit characters; a header may also carry a character outside ASCII,
\* which is one UTF-16 unit and two bytes.
Digits == << "a", "b", "c" >>
NonAscii == "e-acute"
Bytes(ch) == IF ch = NonAscii THEN 2 ELSE 1
RECURSIVE ByteLength(_)
\* Buffer.from(text).length
ByteLength(text) ==
  IF text = << >> THEN 0 ELSE Bytes(Head(text)) + ByteLength(Tail(text))

\* the payloads and secrets of the model, numbered
Payloads == { "b1", "b2", "b1c" }
Secrets == { "k1", "k2" }
PayloadNo(payload) == IF payload = "b1" THEN 0 ELSE IF payload = "b2" THEN 1 ELSE 2
SecretNo(secret) == IF secret = "k1" THEN 0 ELSE 1
RECURSIVE Power(_, _)
Power(b, n) == IF n = 0 THEN 1 ELSE b * Power(b, n - 1)
\* createHmac(algorithm, secret).update(payload).digest(encoding): a text
\* of DigestLength digits that differs for every payload and secret
Hmac(payload, secret) ==
  [i \in 1..DigestLength |->
     Digits[(((2 * PayloadNo(payload) + SecretNo(secret)) \div Power(3, i - 1)) % 3) + 1]]

\* crypto.timingSafeEqual of the two texts as buffers: a RangeError when
\* their byte lengths differ
timingSafeEqual(a, b) ==
  IF ByteLength(a) # ByteLength(b) THEN "RangeError"
  ELSE IF a = b THEN "true" ELSE "false"

\* validateSignature that hands texts of any length to the comparator
validateSignatureNoLengthTest(payload, signature, secret) ==
  LET expectedSignature == Hmac(payload, secret)
      isValid == timingSafeEqual(signature, expectedSignature)
  IN [returned |-> IF isValid = "RangeError" THEN "false" ELSE isValid,
      compared |-> TRUE]

\* validateSignature: false at once for a signature of another length;
\* otherwise timingSafeEqual decides, and what it throws is caught and
\* turned into false
validateSignature(payload, signature, secret) ==
  LET expectedSignature == Hmac(payload, secret)
      isValid == timingSafeEqual(signature, expectedSignature)
  IN IF Len(signature) # Len(expectedSignature)
       THEN [returned |-> "false", compared |-> FALSE]
       ELSE [returned |-> IF isValid = "RangeError" THEN "false" ELSE isValid,
             compared |-> TRUE]

\* the texts of at most n characters of the set chars
RECURSIVE Texts(_, _)
Texts(chars, n) ==
  IF n = 0 THEN { << >> }
  ELSE LET shorter == Texts(chars, n - 1)
       IN shorter \cup { Append(t, ch) : t \in { u \in shorter : Len(u) = n - 1 }, ch \in chars }

\* validateSignature called with a payload, a secret and any header text
\* of up to one character more than a digest
SignatureInit ==
  /\ event = NoEvent
  /\ stageRows = Stages
  /\ dto = NoDto
  /\ leads = << >>
  /\ disturbances = 0
  /\ pc = [p \in Proc |-> "idle"]
  /\ req = [p \in Proc |-> NoEvent]
  /\ pipeline = [p \in Proc |-> 0]
  /\ business = [p \in Proc |-> 0]
  /\ stage = [p \in Proc |-> 0]
  /\ count = [p \in Proc |-> 0]
  /\ lead = [p \in Proc |-> NullLead]
  /\ previousStages = [p \in Proc |-> << >>]
  /\ nextStages = [p \in Proc |-> << >>]
  /\ result = [p \in Proc |-> NoResult]
  /\ calls = [p \in Proc |-> [c \in AllCalls |-> "none"]]
  /\ dpc = [p \in Proc |-> "none"]
  /\ messages = [p \in Proc |-> << >>]
  /\ fetches = [p \in Proc |-> 0]
  /\ posts = [p \in Proc |-> << >>]
  /\ openAtStart = [p \in Proc |-> 0]
  /\ lenAtStart = [p \in Proc |-> 0]
  /\ CalendarUnused
  /\ CacheUnused
  /\ DealsUnused
  /\ \E pl \in Payloads, k \in Secrets, sig \in Texts({ "a", "b", NonAscii }, DigestLength + 1) :
       httpRequest = [config |-> TRUE, secret |-> k, headerName |-> "h", signature |-> sig,
                      rawBody |-> pl, hasBody |-> TRUE]
  /\ GuardIdle

\* a call validateSignature(payload, signature, secret)
ValidateSignature(p) ==
  /\ validation[p] = NoValidation
  /\ validation' = [validation EXCEPT
                      ![p] = validateSignature(httpRequest.rawBody, httpRequest.signature,
                                               httpRequest.secret)]
  /\ UNCHANGED <<requestVars, calInputs, tokenVars, slotVars, httpRequest, guard, cacheVars, envVars,
                 pc, req, openAtStart, lenAtStart, localVars, result, calls, dispVars>>

SignatureNext == \E p \in Proc : ValidateSignature(p)

SignatureSpec == SignatureInit /\ [][SignatureNext]_vars

\* ------------------------------------------------------- SignatureGuard
MsgNotConfigured == "Signature validation not configured"
MsgNoSecret == "Webhook secret key not configured"
MsgNoHeaderName == "Webhook header name not configured"
MsgNoSignature == "Missing signature header"
MsgNoBody == "Missing request body"
MsgInvalidSignature == "Invalid signature"
\* the messages of the UnauthorizedException that canActivate throws
Unauthorized ==
  { MsgNotConfigured, MsgNoSecret, MsgNoHeaderName, MsgNoSignature, MsgNoBody,
    MsgInvalidSignature }

\* JSON.stringify(request.body): a text of its own, not the bytes received
Stringified == "b1c"

\* canActivate: the first missing piece ends it with an exception; the
\* signature is validated over rawBody when there is one and over the
\* re-serialised body otherwise
canActivate(r) ==
  IF ~r.config THEN [outcome |-> MsgNotConfigured, validation |-> NoValidation]
  ELSE IF r.secret = NULL THEN [outcome |-> MsgNoSecret, validation |-> NoValidation]
  ELSE IF r.headerName = NULL THEN [outcome |-> MsgNoHeaderName, validation |-> NoValidation]
  ELSE IF r.signature = << >> THEN [outcome |-> MsgNoSignature, validation |-> NoValidation]
  ELSE IF r.rawBody = NULL /\ ~r.hasBody THEN [outcome |-> MsgNoBody, validation |-> NoValidation]
  ELSE LET payload == IF r.rawBody # NULL THEN r.rawBody ELSE Stringified
           isValid == validateSignature(payload, r.signature, r.secret)
       IN [outcome |-> IF isValid.returned = "true" THEN "true" ELSE MsgInvalidSignature,
           validation |-> isValid]

\* the guard of the message-received route runs for a request
CanActivate(p) ==
  /\ guard[p] = NULL
  /\ pc[p] = "idle"
  /\ guard' = [guard EXCEPT ![p] = canActivate(httpRequest).outcome]
  /\ validation' = [validation EXCEPT ![p] = canActivate(httpRequest).validation]
  /\ UNCHANGED <<requestVars, calInputs, tokenVars, slotVars, httpRequest, cacheVars, envVars,
                 pc, req, openAtStart, lenAtStart, localVars, result, calls, dispVars>>

\* the route without @UseGuards(SignatureGuard)
MessageReceivedUnguarded(p) == StartAlone(p)

\* POST leads/whatsapp/webhook/message-received: the controller method
\* runs when the guard has returned true
MessageReceived(p) ==
  /\ guard[p] = "true"
  /\ StartAlone(p)

\* requests with every piece present or missing, signed for the raw body,
\* for the re-serialised body, for another body, or with a short text
GuardRequests ==
  [config : BOOLEAN, secret : { NULL, "k1" }, headerName : { NULL, "h" },
   signature : { << >>, << "a" >>, Hmac("b1", "k1"), Hmac("b2", "k1"),
                 Hmac(Stringified, "k1") },
   rawBody : { NULL, "b1" }, hasBody : BOOLEAN]

GuardInit ==
  /\ event \in CoreEvents
  /\ stageRows = Stages
  /\ dto = NoDto
  /\ leads \in InitialStores
  /\ disturbances = 0
  /\ pc = [p \in Proc |-> "idle"]
  /\ req = [p \in Proc |-> NoEvent]
  /\ pipeline = [p \in Proc |-> 0]
  /\ business = [p \in Proc |-> 0]
  /\ stage = [p \in Proc |-> 0]
  /\ count = [p \in Proc |-> 0]
  /\ lead = [p \in Proc |-> NullLead]
  /\ previousStages = [p \in Proc |-> << >>]
  /\ nextStages = [p \in Proc |-> << >>]
  /\ result = [p \in Proc |-> NoResult]
  /\ calls = [p \in Proc |-> [c \in AllCalls |-> "none"]]
  /\ dpc = [p \in Proc |-> "none"]
  /\ messages = [p \in Proc |-> << >>]
  /\ fetches = [p \in Proc |-> 0]
  /\ posts = [p \in Proc |-> << >>]
  /\ openAtStart = [p \in Proc |-> 0]
  /\ lenAtStart = [p \in Proc |-> 0]
  /\ CalendarUnused
  /\ CacheUnused
  /\ DealsUnused
  /\ httpRequest \in GuardRequests
  /\ GuardIdle

GuardNext ==
  \/ \E p \in Proc : CanActivate(p)
  \/ \E p \in Proc : MessageReceived(p)
  \/ \E p \in Proc : FindPipeline(p)
  \/ \E p \in Proc : FindBusiness(p)
  \/ \E p \in Proc : FindInputStage(p)
  \/ \E p \in Proc : CountOpenLeads(p)
  \/ \E p \in Proc : FetchExisting(p)
  \/ \E p \in Proc : InsertLead(p)
  \/ \E p \in Proc : PreviousStages(p)
  \/ \E p \in Proc : NextStages(p)
  \/ \E p \in Proc : GetMessages(p)
  \/ \E p \in Proc : PostWebhook(p)

GuardSpec == GuardInit /\ [][GuardNext]_vars

\* ---------------------------------------------------------- CacheService
KeyRow(key, user, active) == [key |-> key, user_id |-> user, is_active |-> active]
\* `new Map()`, and the map after clear()
EmptyCache == [u \in Users |-> << >>]
\* one turn of the populate loop: has / set / get / push
Push(map, apiKeyRow) == [map EXCEPT ![apiKeyRow.user_id] = Append(@, apiKeyRow)]
RECURSIVE PopulateFrom(_, _)
PopulateFrom(map, data) ==
  IF data = << >> THEN map ELSE PopulateFrom(Push(map, Head(data)), Tail(data))
\* a load that stops after the first row
PopulateFirstOnly(data) ==
  IF data = << >> THEN EmptyCache ELSE Push(EmptyCache, Head(data))
\* clear() and the populate loop of loadUserApiKeys, which run without an
\* await between them
Populate(data) == PopulateFrom(EmptyCache, data)

\* getUserApiKey: the row with the key in some user's array, or undefined
getUserApiKey(map, key) ==
  LET found == { r \in UNION { { map[u][i] : i \in 1..Len(map[u]) } : u \in Users } :
                   r.key = key }
  IN IF found = {} THEN NoKeyRow ELSE CHOOSE r \in found : TRUE

MsgMissingApiKey  == "Missing x-api-key header"
MsgInvalidApiKey  == "Invalid API key"
MsgInactiveApiKey == "API key is not active"
\* ApiKeyGuard.canActivate against the cache as it is
apiKeyCanActivate(map, key) ==
  IF key = NULL THEN [outcome |-> MsgMissingApiKey, userApiKey |-> NoKeyRow]
  ELSE LET userApiKey == getUserApiKey(map, key)
       IN IF userApiKey = NoKeyRow THEN [outcome |-> MsgInvalidApiKey, userApiKey |-> NoKeyRow]
          ELSE IF ~userApiKey.is_active
            THEN [outcome |-> MsgInactiveApiKey, userApiKey |-> NoKeyRow]
          ELSE [outcome |-> "true", userApiKey |-> userApiKey]

cacheFrame == <<requestVars, calInputs, tokenVars, slotVars, sigVars, envVars, pc, req,
                openAtStart, lenAtStart, localVars, result, calls, dispVars>>

\* refreshUserApiKeys up to its await: the select of the whole table is
\* answered by the store with the rows of that moment or with an error
LoadSelect(p) ==
  /\ loadPc[p] = "idle"
  /\ \E out \in Outcomes :
       /\ loadPc' = [loadPc EXCEPT ![p] = IF out = "ok" THEN "selected" ELSE "rejected"]
       /\ fetched' = [fetched EXCEPT ![p] = IF out = "ok" THEN apiKeyRows ELSE << >>]
  /\ UNCHANGED <<apiKeyRows, cache, loadedData, apiKey, apiGuard, cacheFrame>>

\* a refresh that clears the cache before it tests the error
LoadResumeClearingFirst(p) ==
  /\ loadPc[p] \in { "selected", "rejected" }
  /\ IF loadPc[p] = "rejected"
       THEN /\ loadPc' = [loadPc EXCEPT ![p] = "failed"]
            /\ cache' = EmptyCache
            /\ loadedData' = << >>
       ELSE /\ loadPc' = [loadPc EXCEPT ![p] = "done"]
            /\ cache' = Populate(fetched[p])
            /\ loadedData' = fetched[p]
  /\ UNCHANGED <<apiKeyRows, fetched, apiKey, apiGuard, cacheFrame>>

\* refreshUserApiKeys after its await: an error is thrown before the cache
\* is touched; otherwise the cache is cleared and filled in one go
LoadResume(p) ==
  /\ loadPc[p] \in { "selected", "rejected" }
  /\ IF loadPc[p] = "rejected"
       THEN /\ loadPc' = [loadPc EXCEPT ![p] = "failed"]
            /\ UNCHANGED <<cache, loadedData>>
       ELSE /\ loadPc' = [loadPc EXCEPT ![p] = "done"]
            /\ cache' = Populate(fetched[p])
            /\ loadedData' = fetched[p]
  /\ UNCHANGED <<apiKeyRows, fetched, apiKey, apiGuard, cacheFrame>>

\* a request passes through ApiKeyGuard
ApiKeyCanActivate(p) ==
  /\ apiGuard[p] = NoApiGuard
  /\ apiGuard' = [apiGuard EXCEPT ![p] = apiKeyCanActivate(cache, apiKey)]
  /\ UNCHANGED <<apiKeyRows, cache, loadedData, loadPc, fetched, apiKey, cacheFrame>>

\* contents of user_api_keys: empty, one key, keys of two users in mixed
\* order, and a key switched off
ApiKeyTables ==
  { << >>,
    << KeyRow("x", "u1", TRUE) >>,
    << KeyRow("x", "u1", TRUE), KeyRow("z", "u2", TRUE), KeyRow("y", "u1", TRUE) >>,
    << KeyRow("x", "u1", FALSE), KeyRow("y", "u1", TRUE) >> }

\* the table is edited while the service runs
WriteApiKeys ==
  /\ apiKeyRows' \in ApiKeyTables \ { apiKeyRows }
  /\ UNCHANGED <<cache, loadedData, loadPc, fetched, apiKey, apiGuard, cacheFrame>>

\* the service after onModuleInit has loaded the table
CacheInit ==
  /\ event = NoEvent
  /\ stageRows = Stages
  /\ dto = NoDto
  /\ DealsUnused
  /\ leads = << >>
  /\ disturbances = 0
  /\ pc = [p \in Proc |-> "idle"]
  /\ req = [p \in Proc |-> NoEvent]
  /\ pipeline = [p \in Proc |-> 0]
  /\ business = [p \in Proc |-> 0]
  /\ stage = [p \in Proc |-> 0]
  /\ count = [p \in Proc |-> 0]
  /\ lead = [p \in Proc |-> NullLead]
  /\ previousStages = [p \in Proc |-> << >>]
  /\ nextStages = [p \in Proc |-> << >>]
  /\ result = [p \in Proc |-> NoResult]
  /\ calls = [p \in Proc |-> [c \in AllCalls |-> "none"]]
  /\ dpc = [p \in Proc |-> "none"]
  /\ messages = [p \in Proc |-> << >>]
  /\ fetches = [p \in Proc |-> 0]
  /\ posts = [p \in Proc |-> << >>]
  /\ openAtStart = [p \in Proc |-> 0]
  /\ lenAtStart = [p \in Proc |-> 0]
  /\ GuardUnused
  /\ CalendarUnused
  /\ apiKeyRows \in ApiKeyTables
  /\ cache = Populate(apiKeyRows)
  /\ loadedData = apiKeyRows
  /\ apiKey \in { NULL, "x", "w" }
  /\ CacheIdle

CacheNext ==
  \/ \E p \in Proc : LoadSelect(p)
  \/ \E p \in Proc : LoadResume(p)
  \/ \E p \in Proc : ApiKeyCanActivate(p)
  \/ WriteApiKeys

CacheSpec == CacheInit /\ [][CacheNext]_vars

\* ---------------------------------------------------- thrown exceptions
\* message texts of the catch blocks that no error value reaches
MsgChangeFailed    == "Failed to change lead stage"
MsgFetchLeadFailed == "Failed to fetch lead information"
\* the message of an Error thrown by the store client itself
ThrownText == "fetch failed"

IntakeAwaits == { "findPipeline", "lookups", "count", "fetchExisting", "insert", "related" }
ChangeAwaits == { "leadCheck", "stageCheck", "update" }
\* the positions at which an invocation awaits the record store
StoreAwaits ==
  IntakeAwaits \cup ChangeAwaits
    \cup { "replyLead", "availLead", "availConn", "availSave", "bookLead", "bookConn", "bookSave" }

\* the store calls awaited at a position
AwaitedCalls(at) ==
  IF at = "findPipeline" THEN { "pipelines.select" }
  ELSE IF at = "lookups" THEN { "businesses.select", "stages.input" }
  ELSE IF at = "count" THEN { "leads.count" }
  ELSE IF at = "fetchExisting" THEN { "leads.select" }
  ELSE IF at = "insert" THEN { "leads.insert" }
  ELSE IF at = "related" THEN { "stages.previous", "stages.next" }
  ELSE IF at = "stageCheck" THEN { "stages.byId" }
  ELSE IF at = "update" THEN { "leads.update" }
  ELSE IF at \in { "availConn", "bookConn" } THEN { "connections.select" }
  ELSE IF at \in { "availSave", "bookSave" } THEN { "connections.update" }
  ELSE { "leads.byId" }

\* an exception at a position that is handed on to the caller
Propagated == [status |-> "exception", message |-> ThrownText, lead_id |-> NoLeadId,
               count |-> NoCount, error |-> ThrownText, isAvailable |-> NULL,
               suggestedSlots |-> << >>]
\* entry points without the try block around their body
UncaughtResult(at) == Propagated

\* what the nearest enclosing catch block returns for an exception thrown
\* by the call awaited at a position: the catch of handleWhatsappWebhook,
\* of changeLeadStage, of getLeadWithPipeline, of
\* checkAvailabilityForMeeting, of bookMeeting, and for the save of a
\* refreshed token the catch of getValidAccessToken, whose null makes
\* both meeting operations answer that authentication failed
CatchResult(at) ==
  IF at \in IntakeAwaits THEN CaughtResult(ThrownText)
  ELSE IF at \in ChangeAwaits THEN FailedResult(MsgChangeFailed, ThrownText)
  ELSE IF at = "replyLead" THEN FailedResult(MsgFetchLeadFailed, ThrownText)
  ELSE IF at \in { "availLead", "availConn" } THEN Unavailable(MsgAvailabilityError)
  ELSE IF at = "availSave" THEN Unavailable(MsgNoGoogleAuth)
  ELSE IF at = "bookSave" THEN ErrorResult(MsgNoGoogleAuth)
  ELSE FailedResult(MsgBookFailed, ThrownText)

\* the store client throws instead of returning an error value
StoreThrows(p) ==
  /\ pc[p] \in StoreAwaits
  /\ disturbances < MaxDisturbances
  /\ disturbances' = disturbances + 1
  /\ \E c \in AwaitedCalls(pc[p]) :
       /\ calls[p][c] = "none"
       /\ calls' = [calls EXCEPT ![p][c] = "thrown"]
  /\ Return(p, CatchResult(pc[p]))
  /\ UNCHANGED <<leads, startVars, localVars, dispVars>>

\* the five entry points up to their return; the dispatcher's own steps,
\* which follow the return of handleWhatsappWebhook, are left out
ThrowNext ==
  \/ \E p \in Proc : StartAlone(p)
  \/ \E p \in Proc : Quiet /\ ChangeLeadStage(p)
  \/ \E p \in Proc : Quiet /\ ReplyWhatsappMessage(p)
  \/ \E p \in Proc : Quiet /\ CheckAvailabilityForMeeting(p)
  \/ \E p \in Proc : Quiet /\ BookMeeting(p)
  \/ \E p \in Proc : FindPipeline(p)
  \/ \E p \in Proc : FindBusiness(p)
  \/ \E p \in Proc : FindInputStage(p)
  \/ \E p \in Proc : CountOpenLeads(p)
  \/ \E p \in Proc : FetchExisting(p)
  \/ \E p \in Proc : InsertLead(p)
  \/ \E p \in Proc : PreviousStages(p)
  \/ \E p \in Proc : NextStages(p)
  \/ \E p \in Proc : LeadCheck(p)
  \/ \E p \in Proc : StageCheck(p)
  \/ \E p \in Proc : UpdateLeadStage(p)
  \/ \E p \in Proc : ReplyLead(p)
  \/ \E p \in Proc : ReplySend(p)
  \/ \E p \in Proc : AvailLead(p)
  \/ \E p \in Proc : AvailConnection(p)
  \/ \E p \in Proc : AvailRefresh(p)
  \/ \E p \in Proc : AvailSave(p)
  \/ \E p \in Proc : AvailFreeBusy(p)
  \/ \E p \in Proc : AvailSlots(p)
  \/ \E p \in Proc : FindSlot(p)
  \/ \E p \in Proc : BookLead(p)
  \/ \E p \in Proc : BookConnection(p)
  \/ \E p \in Proc : BookRefresh(p)
  \/ \E p \in Proc : BookSave(p)
  \/ \E p \in Proc : BookEvent(p)
  \/ \E p \in Proc : StoreThrows(p)

\* the five entry points with failures as error values and as exceptions
ThrowSpec == CoreInit /\ [][ThrowNext]_vars

\* one step of an entry point that has started: the call it awaits
\* returns or throws
EntryStep(p) ==
  \/ FindPipeline(p) \/ FindBusiness(p) \/ FindInputStage(p)
  \/ CountOpenLeads(p) \/ FetchExisting(p) \/ InsertLead(p)
  \/ PreviousStages(p) \/ NextStages(p)
  \/ LeadCheck(p) \/ StageCheck(p) \/ UpdateLeadStage(p)
  \/ ReplyLead(p) \/ ReplySend(p)
  \/ AvailLead(p) \/ AvailConnection(p) \/ AvailRefresh(p) \/ AvailSave(p)
  \/ AvailFreeBusy(p) \/ AvailSlots(p) \/ FindSlot(p)
  \/ BookLead(p) \/ BookConnection(p) \/ BookRefresh(p) \/ BookSave(p)
  \/ BookEvent(p)
  \/ StoreThrows(p)

\* every awaited call settles
FairThrowSpec == ThrowSpec /\ \A p \in Proc : WF_vars(EntryStep(p))

\* ----------------------------------------------------------------- claims
Phones == { "A", "B" }
Started(p) == pc[p] # "idle"
Returned(p) == pc[p] = "done"
Inserted(p) == calls[p]["leads.insert"] = "ok"
NoFailedCall(p) == \A c \in StoreCalls : calls[p][c] \notin { "error", "empty" }
\* the event names a pipeline, business and input stage that exist
Resolvable(e) ==
  LET info == extractConversationInfo(e)
      pl   == Single(findPipelineRows(info.phoneNumberId))
  IN /\ info # NoInfo
     /\ pl.id # 0
     /\ findBusinessRows(PipelineRow(pl.id).business_id) # {}
     /\ Cardinality(findInputStageRows(pl.id)) = 1
\* executeStageWebhook was never called for the invocation
NoDispatch(p) == dpc[p] = "none" /\ fetches[p] = 0 /\ posts[p] = << >>

\* C1: in every reachable state at most one lead per phone number has
\* closed_at = null (the initial store satisfies this).
C1_AtMostOneOpenLeadPerPhone ==
  \A ph \in Phones : Cardinality(OpenInStore(ph)) <= 1

\* C2: two invocations for the same phone number that both read a count of
\* zero both insert: each gets a row of its own with that phone number, and
\* each returns success with the id of its row.
C2_ZeroCountsBothInsert ==
  \A p, q \in Proc :
    ( /\ p # q
      /\ Info(p).phoneNumber = Info(q).phoneNumber
      /\ calls[p]["leads.count"] = "ok" /\ count[p] = 0
      /\ calls[q]["leads.count"] = "ok" /\ count[q] = 0
      /\ calls[p]["leads.insert"] = "ok"
      /\ calls[q]["leads.insert"] = "ok" )
    => /\ lead[p].id # lead[q].id
       /\ \A r \in {p, q} :
            /\ lead[r].id \in 1..Len(leads)
            /\ leads[lead[r].id].phone_number = Info(r).phoneNumber
            /\ Returned(r) => /\ result[r].status = "success"
                              /\ result[r].lead_id = lead[r].id

\* C2 witness: both invocations began with no open lead of the phone number,
\* both returned success, and the store holds their two open leads.
C2_TwoOpenLeadsReached ==
  \E p, q \in Proc :
    /\ p # q
    /\ Started(p) /\ Started(q)
    /\ openAtStart[p] = 0 /\ openAtStart[q] = 0
    /\ Returned(p) /\ Returned(q)
    /\ result[p].status = "success" /\ result[q].status = "success"
    /\ result[p].lead_id # result[q].lead_id
    /\ { result[p].lead_id, result[q].lead_id }
         \subseteq OpenInStore(Info(p).phoneNumber)

\* no invocation arrived after p
Latest(p) == \A q \in Proc : q > p => pc[q] = "idle"
\* the input stage of the pipeline the event resolves to
InputStageOf(e) ==
  Single(findInputStageRows(
           Single(findPipelineRows(extractConversationInfo(e).phoneNumberId)).id))

\* C3: an invocation that runs alone, for a phone number with no open lead,
\* with pipeline, business and input stage resolvable and every store call
\* succeeding, inserts exactly one lead, at the input stage with value 0, and
\* returns success with that lead's id.
C3_LoneInvocationCreatesOneLead ==
  \A p \in Proc :
    ( /\ Returned(p)
      /\ Resolvable(req[p])
      /\ ~Falsy(Info(p).phoneNumber)
      /\ openAtStart[p] = 0
      /\ NoFailedCall(p) )
    => /\ result[p].status = "success"
       /\ result[p].lead_id = lenAtStart[p] + 1
       /\ result[p].lead_id <= Len(leads)
       /\ leads[result[p].lead_id].phone_number = Info(p).phoneNumber
       /\ leads[result[p].lead_id].pipeline_stage_id = InputStageOf(req[p]).id
       /\ leads[result[p].lead_id].value = 0
       /\ Latest(p) => Len(leads) = lenAtStart[p] + 1

\* C3 witness: a lone invocation has created a lead in a store that already
\* held leads of other states and phone numbers.
C3_LeadCreatedReached ==
  \E p \in Proc :
    /\ Returned(p) /\ Resolvable(req[p]) /\ NoFailedCall(p)
    /\ openAtStart[p] = 0 /\ lenAtStart[p] > 0
    /\ result[p].status = "success"
    /\ Len(leads) = lenAtStart[p] + 1

\* C4, in every state: an invocation whose count check returned one or more
\* has inserted nothing, and returns skipped with that count.
C4_CountedSkips ==
  \A p \in Proc :
    (calls[p]["leads.count"] = "ok" /\ count[p] >= 1)
    => /\ calls[p]["leads.insert"] = "none"
       /\ Returned(p) => /\ result[p].status = "skipped"
                         /\ result[p].count = count[p]

\* C4, in every step: a count check that runs while the phone number has one
\* or more open leads observes exactly their number and inserts nothing.
C4_CountStep ==
  \A p \in Proc :
    ( /\ pc[p] = "count"
      /\ calls'[p]["leads.count"] = "ok"
      /\ Cardinality(OpenInStore(Info(p).phoneNumber)) >= 1 )
    => /\ count'[p] = Cardinality(OpenInStore(Info(p).phoneNumber))
       /\ pc'[p] = "fetchExisting"
       /\ leads' = leads

CreatedStillOpen(p) ==
  /\ Returned(p)
  /\ result[p].status = "success"
  /\ result[p].lead_id \in OpenInStore(Info(p).phoneNumber)

\* C5 as claimed: after an invocation has created a lead that is still open,
\* every later invocation with the same event returns skipped and the number
\* of leads does not grow.
C5_ReplayReturnsSkipped ==
  \A p, q \in Proc :
    (p < q /\ CreatedStillOpen(p) /\ Returned(q) /\ req[q] = req[p])
    => /\ result[q].status = "skipped"
       /\ calls[q]["leads.insert"] = "none"
       /\ Latest(q) => Len(leads) = lenAtStart[q]

\* C5 amended: such a later invocation never inserts and the number of leads
\* does not grow; it returns skipped when its store calls succeed, and an
\* error result (never success) when one of them fails.
C5_ReplayNeverCreates ==
  \A p, q \in Proc :
    (p < q /\ CreatedStillOpen(p) /\ Returned(q) /\ req[q] = req[p])
    => /\ calls[q]["leads.insert"] = "none"
       /\ Latest(q) => Len(leads) = lenAtStart[q]
       /\ result[q].status \in {"skipped", "error"}
       /\ result[q].status = "error" =>
            \E c \in {"pipelines.select", "businesses.select", "stages.input",
                      "leads.count"} : calls[q][c] = "error"
       /\ calls[q]["leads.count"] = "ok" =>
            /\ result[q].status = "skipped"
            /\ result[q].lead_id \in {result[p].lead_id, NoRowId}

\* C5 witness: the replay of an event returned skipped with the id of the
\* lead its first delivery created.
C5_ReplaySkippedReached ==
  \E p, q \in Proc :
    /\ p < q /\ CreatedStillOpen(p) /\ Returned(q) /\ req[q] = req[p]
    /\ result[q].status = "skipped"
    /\ result[q].lead_id = result[p].lead_id
    /\ Len(leads) = lenAtStart[q]

\* the invocation made no record-store call
NoStoreCall(p) == \A c \in StoreCalls : calls[p][c] = "none"
\* the invocation neither counted, fetched nor inserted a lead
NoLeadCall(p) ==
  \A c \in {"leads.count", "leads.select", "leads.insert"} : calls[p][c] = "none"

\* C6: an event without phone_number_id gets an error result, and the
\* invocation makes no record-store call and no dispatch.
C6_MissingPhoneNumberIdIsError ==
  \A p \in Proc :
    (Started(p) /\ req[p].phone_number_id \in {NULL, ""})
    => /\ Returned(p)
       /\ result[p] = ErrorResult(MsgMissingPhoneNumberId)
       /\ result[p].status = "error"
       /\ NoStoreCall(p)
       /\ NoDispatch(p)

\* C6 witness: an event with an empty phone_number_id was answered.
C6_MissingIdReached ==
  \E p \in Proc : Returned(p) /\ req[p].phone_number_id = ""
                  /\ result[p].status = "error"

\* C7: with a phone_number_id but no conversation phone number the handler
\* returns an error result and never runs the count, the fetch or the
\* insert, creates no lead and dispatches nothing.
C7_MissingPhoneNumberIsError ==
  \A p \in Proc :
    ( /\ Started(p)
      /\ req[p].phone_number_id \notin {NULL, ""}
      /\ req[p].phone_number \in {NULL, ""} )
    => /\ NoLeadCall(p)
       /\ NoDispatch(p)
       /\ lead[p] = NullLead
       /\ \A i \in DOMAIN leads : leads[i].phone_number \notin {NULL, ""}
       /\ Returned(p) => result[p].status = "error"
       /\ (Returned(p) /\ business[p] # 0 /\ stage[p] # 0)
            => result[p] = CaughtResult(ErrPhoneRequired)

\* C7 witness: the handler resolved pipeline, business and stage and then
\* failed on the missing phone number.
C7_MissingPhoneReached ==
  \E p \in Proc :
    /\ Returned(p)
    /\ req[p].phone_number = NULL
    /\ business[p] # 0 /\ stage[p] # 0
    /\ result[p].error = ErrPhoneRequired

\* the result objects of the handler's other error outcomes
OtherErrorResults ==
  { ErrorResult(MsgMissingPhoneNumberId), ErrorResult(MsgPipelineNotFound),
    ErrorResult(MsgBusinessNotFound), ErrorResult(MsgStageNotFound),
    CaughtResult(ErrPhoneRequired), CaughtResult(ErrCreateFailed),
    CaughtResult(ErrCreateNoRow) }

\* a failed count query ends the invocation: error result, no insert, no
\* fetch of an existing lead, no dispatch
CountFailureShortCircuits(p) ==
  /\ Returned(p)
  /\ result[p].status = "error"
  /\ calls[p]["leads.insert"] = "none"
  /\ calls[p]["leads.select"] = "none"
  /\ lead[p] = NullLead
  /\ NoDispatch(p)

\* C8 as claimed: a failed count query short-circuits, and the message of
\* its error result differs from the message of every other error outcome.
C8_CountFailureOwnMessage ==
  \A p \in Proc :
    calls[p]["leads.count"] = "error"
    => /\ CountFailureShortCircuits(p)
       /\ \A r \in OtherErrorResults : result[p].message # r.message

\* C8 amended: a failed count query short-circuits; the text specific to the
\* count failure is in the result's error field, which differs from the
\* error field of every other error outcome, while the message field is the
\* generic one of the catch block.
C8_CountFailureOwnErrorText ==
  \A p \in Proc :
    calls[p]["leads.count"] = "error"
    => /\ CountFailureShortCircuits(p)
       /\ result[p].error = ErrCheckingExisting
       /\ result[p].message = MsgUnexpected
       /\ \A r \in OtherErrorResults : result[p].error # r.error

\* C8 witness: a count query failed while the phone number had an open lead.
C8_CountFailureReached ==
  \E p \in Proc :
    /\ calls[p]["leads.count"] = "error"
    /\ Returned(p)
    /\ OpenInStore(Info(p).phoneNumber) # {}

\* the pipelines that are enabled and carry the event's phone_number_id
MatchingPipelines(e) ==
  { pl \in Pipelines : pl.whatsapp_is_enabled
                       /\ pl.whatsapp_phone_number_id = e.phone_number_id }

\* C9: the handler goes past pipeline resolution only with an enabled
\* pipeline of the event's phone_number_id; without one (a disabled pipeline
\* included) it returns 'Pipeline not found or WhatsApp not enabled' and
\* writes nothing.
C9_PipelineEnabledAndMatching ==
  \A p \in Proc :
    /\ (pc[p] \notin {"idle", "findPipeline", "done"} \/ pipeline[p] # 0
        \/ \E c \in StoreCalls \ {"pipelines.select"} : calls[p][c] # "none")
       => /\ pipeline[p] # 0
          /\ PipelineRow(pipeline[p]) \in MatchingPipelines(req[p])
    /\ ( /\ calls[p]["pipelines.select"] # "none"
         /\ req[p].phone_number_id \notin {NULL, ""}
         /\ MatchingPipelines(req[p]) = {} )
       => /\ Returned(p)
          /\ result[p] = ErrorResult(MsgPipelineNotFound)
          /\ \A c \in StoreCalls \ {"pipelines.select"} : calls[p][c] = "none"
          /\ NoDispatch(p)

\* C9 witness: an event for the phone_number_id of a disabled pipeline was
\* answered with the not-found error.
C9_DisabledPipelineReached ==
  \E p \in Proc :
    /\ Returned(p)
    /\ \E pl \in Pipelines : /\ pl.whatsapp_phone_number_id = req[p].phone_number_id
                             /\ ~pl.whatsapp_is_enabled
    /\ result[p].message = MsgPipelineNotFound

\* C10: once the pipeline is resolved, a missing business gives 'Business
\* not found' and a missing input stage the different 'Input stage not found
\* for pipeline'; in both cases nothing is counted, inserted or dispatched.
C10_BusinessThenStage ==
  \A p \in Proc :
    pipeline[p] # 0 =>
      LET noBusiness == findBusinessRows(PipelineRow(pipeline[p]).business_id) = {}
          noStage    == \A s \in Stages : ~(s.pipeline_id = pipeline[p] /\ s.is_input)
      IN /\ (noBusiness \/ noStage) => NoLeadCall(p) /\ NoDispatch(p)
                                       /\ lead[p] = NullLead
         /\ (Returned(p) /\ noBusiness)
              => result[p] = ErrorResult(MsgBusinessNotFound)
         /\ (Returned(p) /\ ~noBusiness /\ business[p] # 0 /\ noStage)
              => result[p] = ErrorResult(MsgStageNotFound)
         /\ MsgBusinessNotFound # MsgStageNotFound

\* C10 witness: business and input stage are both missing and the handler
\* answered 'Business not found'.
C10_BothMissingReached ==
  \E p \in Proc :
    /\ Returned(p) /\ pipeline[p] # 0
    /\ business[p] = 0 /\ stage[p] = 0
    /\ calls[p]["businesses.select"] = "ok" /\ calls[p]["stages.input"] = "ok"
    /\ result[p].message = MsgBusinessNotFound

\* the input stage alone is missing and the handler answered 'Input stage
\* not found for pipeline'
C10_StageMissingReached ==
  \E p \in Proc :
    /\ Returned(p) /\ pipeline[p] # 0
    /\ business[p] # 0 /\ stage[p] = 0
    /\ calls[p]["stages.input"] = "ok"
    /\ result[p].message = MsgStageNotFound

\* the dispatch of invocation p was fired and has not finished
DispatchPending(p) == dpc[p] \in {"getMessages", "post"}
\* both related-stage queries of invocation p have settled
RelatedDone(p) ==
  calls[p]["stages.previous"] # "none" /\ calls[p]["stages.next"] # "none"

\* C11 (state part): an invocation whose related-stage queries have settled
\* has returned success or skipped, and while its dispatch is pending the
\* handler is not suspended: it has already returned.
C11_ReturnedWhileDispatching ==
  \A p \in Proc :
    /\ RelatedDone(p) => Returned(p) /\ result[p].status \in {"success", "skipped"}
    /\ DispatchPending(p) => Returned(p) /\ result[p] # NoResult

\* C11: handleWhatsappWebhook never waits for executeStageWebhook.  Once the
\* create-or-skip step is done and the related-stage queries are in flight,
\* the handler eventually returns, although nothing makes the dispatcher's
\* message fetch or POST ever complete; and it has returned in every state
\* in which the dispatch is pending.
C11_NeverWaitsForDispatch ==
  /\ []C11_ReturnedWhileDispatching
  /\ \A p \in Proc : (pc[p] = "related") ~> Returned(p)

\* the result was returned while the POST of the dispatch, with the fetched
\* messages, is still in flight
C11_ReturnedBeforeDispatchEnds ==
  \E p \in Proc :
    /\ Returned(p) /\ result[p].status = "success"
    /\ dpc[p] = "post" /\ calls[p]["axios.post"] = "none"
    /\ calls[p]["whatsapp.getMessages"] = "ok"
\* executeStageWebhook was called for invocation p
Dispatched(p) == dpc[p] # "none"
\* the dispatch of invocation p met a failure: the message fetch failed, the
\* POST failed or timed out, or executeStageWebhook threw
DispatchFailed(p) ==
  \/ calls[p]["whatsapp.getMessages"] = "error"
  \/ calls[p]["axios.post"] = "error"
  \/ dpc[p] = "rejected"

\* C12 (state part): the result of an invocation that fired the dispatch is
\* the create-or-skip result, whatever the dispatch did.
C12_ResultIgnoresDispatch ==
  \A p \in Proc :
    Dispatched(p) =>
      /\ Returned(p)
      /\ result[p] = FinalResult(lead[p].id, Inserted(p), count[p])

\* C12 (step part): a step of the dispatcher (the message fetch or the POST
\* settling) changes neither any returned result nor any lead row.
C12_DispatchStep ==
  \A p \in Proc :
    (DispatchPending(p) /\ dpc'[p] # dpc[p]) => result' = result /\ leads' = leads

\* C12: for every outcome of the dispatch the returned result is the same as
\* when the dispatch succeeds, and the dispatch writes no lead row: the
\* created lead stays as it was inserted.
C12_DispatchOutcomeInvisible ==
  []C12_ResultIgnoresDispatch /\ [][C12_DispatchStep]_vars

\* an invocation created a lead and returned success, its POST failed, and
\* the lead is in the store as inserted
C12_FailedDispatchReached ==
  \E p \in Proc :
    /\ dpc[p] = "done" /\ calls[p]["axios.post"] = "error"
    /\ result[p].status = "success"
    /\ leads[result[p].lead_id] = lead[p]
\* the stage handed to the dispatch of invocation p has no webhook_url
NoWebhookUrl(p) == Falsy(StageRow(stage[p]).webhook_url)
\* no HTTP call was made for invocation p
NoHttpCall(p) ==
  /\ fetches[p] = 0 /\ posts[p] = << >>
  /\ \A c \in HttpCalls : calls[p][c] = "none"

\* C13: when the stage has no webhook_url (null or empty), a call of
\* executeStageWebhook makes no getMessages call and no POST and completes
\* normally, whatever lead and pipeline it is handed.
C13_NoUrlIsNoOp ==
  \A p \in Proc :
    (Dispatched(p) /\ NoWebhookUrl(p)) =>
      dpc[p] = "done" /\ NoHttpCall(p) /\ messages[p] = << >>

\* executeStageWebhook was called for a stage without webhook_url and a
\* lead and pipeline for which the messages would otherwise be fetched
C13_NoUrlCallReached ==
  \E p \in Proc :
    /\ Dispatched(p) /\ StageRow(stage[p]).webhook_url = ""
    /\ lead[p] # NullLead
    /\ lead[p].whatsapp_conversation_id = "c1" /\ lead[p].phone_number = "A"
    /\ PipelineRow(pipeline[p]).whatsapp_phone_number_id = "pn1"

\* the lead has a conversation id and a phone number, and the pipeline a
\* channel id
FetchWanted(p) ==
  /\ ~Falsy(lead[p].whatsapp_conversation_id)
  /\ ~Falsy(lead[p].phone_number)
  /\ ~Falsy(PipelineRow(pipeline[p]).whatsapp_phone_number_id)
\* exactly one POST was issued for invocation p, with an empty message list
PostedEmpty(p) == Len(posts[p]) = 1 /\ posts[p][1].messages = << >>

C15_OnePostNoRethrow ==
  \A p \in Proc :
    (Dispatched(p) /\ ~NoWebhookUrl(p)) =>
      /\ Len(posts[p]) <= 1 /\ fetches[p] <= 1
      /\ dpc[p] # "rejected"
      /\ dpc[p] = "done" => Len(posts[p]) = 1 /\ calls[p]["axios.post"] # "none"
\* position of the stage with this id
PositionOf(id) == StageRow(id).position
\* the stages of the pipeline handed to getRelatedStages below / above the
\* position handed to it
StagesBelow(p) ==
  { s \in stageRows : s.pipeline_id = pipeline[p] /\ s.position < PositionOf(stage[p]) }
StagesAbove(p) ==
  { s \in stageRows : s.pipeline_id = pipeline[p] /\ s.position > PositionOf(stage[p]) }
\* the list holds exactly the ids of the wanted stages, each once
ExactlyStages(list, wanted) ==
  /\ Len(list) = Cardinality(wanted)
  /\ { list[i] : i \in 1..Len(list) } = { s.id : s \in wanted }
DescendingByPosition(list) ==
  \A i, j \in 1..Len(list) : i < j => PositionOf(list[i]) > PositionOf(list[j])
AscendingByPosition(list) ==
  \A i, j \in 1..Len(list) : i < j => PositionOf(list[i]) < PositionOf(list[j])
\* previousStages / nextStages of invocation p are as the claim describes
PreviousExact(p) ==
  ExactlyStages(previousStages[p], StagesBelow(p)) /\ DescendingByPosition(previousStages[p])
NextExact(p) ==
  ExactlyStages(nextStages[p], StagesAbove(p)) /\ AscendingByPosition(nextStages[p])

\* C16 as stated: whenever getRelatedStages has returned, previousStages is
\* exactly the stages of the pipeline below the position, descending, and
\* nextStages exactly those above it, ascending.
C16_RelatedStagesExact ==
  \A p \in Proc : RelatedDone(p) => PreviousExact(p) /\ NextExact(p)

\* C16 amended: each list is exact and ordered when its query succeeded, and
\* empty when its query failed; the current stage and the stages of other
\* pipelines are in neither list.
C16_RelatedStagesExactOrEmpty ==
  \A p \in Proc :
    /\ calls[p]["stages.previous"] = "ok" => PreviousExact(p)
    /\ calls[p]["stages.next"] = "ok" => NextExact(p)
    /\ calls[p]["stages.previous"] = "error" => previousStages[p] = << >>
    /\ calls[p]["stages.next"] = "error" => nextStages[p] = << >>
    /\ \A i \in 1..Len(previousStages[p]) :
         /\ previousStages[p][i] # stage[p]
         /\ StageRow(previousStages[p][i]).pipeline_id = pipeline[p]
    /\ \A i \in 1..Len(nextStages[p]) :
         /\ nextStages[p][i] # stage[p]
         /\ StageRow(nextStages[p][i]).pipeline_id = pipeline[p]

\* both queries succeeded for a current stage with two stages below it and
\* one above it in its pipeline, next to stages of another pipeline
C16_BothListsReached ==
  \E p \in Proc :
    /\ calls[p]["stages.previous"] = "ok" /\ calls[p]["stages.next"] = "ok"
    /\ Len(previousStages[p]) = 2 /\ Len(nextStages[p]) = 1
    /\ StageRow(stage[p]).pipeline_id = pipeline[p]
    /\ \E s \in stageRows : s.pipeline_id # pipeline[p]
\* the step makes invocation p return
Returns(p) == pc[p] # "done" /\ pc'[p] = "done"
\* both lookups of changeLeadStage invocation p found their row
ChecksPassed(p) ==
  /\ calls[p]["leads.byId"] = "ok" /\ lead[p].id = dto.leadId.v
  /\ calls[p]["stages.byId"] = "ok" /\ StagesById(dto.newPipelineStageId.v) # {}

\* C17 (state part): a changeLeadStage invocation that found the lead and
\* the stage and read the lead in the requested stage has returned success,
\* 'already in the target stage', and has issued no update.
C17_SameStageReturnsSuccess ==
  \A p \in Proc :
    (ChecksPassed(p) /\ lead[p].pipeline_stage_id = dto.newPipelineStageId.v) =>
      /\ Returned(p)
      /\ result[p] = SuccessResult(MsgAlreadyInStage)
      /\ calls[p]["leads.update"] = "none"

\* C17 (step part): the step that returns 'already in the target stage'
\* writes no lead row.
C17_SameStageStep ==
  \A p \in Proc :
    (Returns(p) /\ result'[p].message = MsgAlreadyInStage) => leads' = leads

\* C17: when newPipelineStageId equals the lead's pipeline_stage_id (lead
\* and stage exist), changeLeadStage returns success and performs no store
\* update.
C17_SameStageNoUpdate ==
  []C17_SameStageReturnsSuccess /\ [][C17_SameStageStep]_vars

\* one request moved the lead and a repeat of it found the lead already in
\* the target stage
C17_RepeatedRequestReached ==
  \E p, q \in Proc :
    /\ result[q] = SuccessResult(MsgStageUpdated)
    /\ result[p] = SuccessResult(MsgAlreadyInStage)
    /\ leads[dto.leadId.v].pipeline_stage_id = dto.newPipelineStageId.v

\* the field is absent from the body or is not of type number
MissingOrNotANumber(x) == x.t # "number"
NonZeroNumber(x) == x.t = "number" /\ x.v # 0
\* no store call was made for invocation p
NoCallAtAll(p) == \A c \in AllCalls : calls[p][c] = "none"

\* C18 (state part): a missing or non-numeric leadId or newPipelineStageId
\* is answered with its validation error before any store access; a lead
\* that does not exist is answered 'Lead not found' and a target stage that
\* does not exist 'New pipeline stage not found', both without an update.
C18_ErrorsBeforeUpdate ==
  \A p \in Proc :
    /\ (Started(p) /\ MissingOrNotANumber(dto.leadId)) =>
         result[p] = ErrorResult(MsgInvalidLeadId) /\ NoCallAtAll(p)
    /\ (Started(p) /\ NonZeroNumber(dto.leadId)
                   /\ MissingOrNotANumber(dto.newPipelineStageId)) =>
         result[p] = ErrorResult(MsgInvalidStageId) /\ NoCallAtAll(p)
    /\ result[p].message \in {MsgInvalidLeadId, MsgInvalidStageId} => NoCallAtAll(p)
    /\ (calls[p]["leads.byId"] # "none" /\ LeadsById(leads, dto.leadId.v) = {}) =>
         /\ Returned(p) /\ result[p].status = "error"
         /\ result[p].message = MsgLeadNotFound
         /\ calls[p]["stages.byId"] = "none" /\ calls[p]["leads.update"] = "none"
    /\ (calls[p]["stages.byId"] # "none" /\ StagesById(dto.newPipelineStageId.v) = {}) =>
         /\ Returned(p) /\ result[p].status = "error"
         /\ result[p].message = MsgNewStageNotFound
         /\ calls[p]["leads.update"] = "none"

\* C18 (step part): a step in which changeLeadStage returns an error writes
\* no lead row.
C18_ErrorStep ==
  \A p \in Proc : (Returns(p) /\ result'[p].status = "error") => leads' = leads

\* C18: changeLeadStage mutates nothing when it returns an error.
C18_ErrorsMutateNothing ==
  []C18_ErrorsBeforeUpdate /\ [][C18_ErrorStep]_vars

\* a request whose leadId is the numeric string of an existing lead, with an
\* existing target stage, was answered with the validation error
C18_NumericStringRejected ==
  \E p \in Proc :
    /\ dto.leadId = Str(1) /\ dto.newPipelineStageId = Num(12)
    /\ result[p] = ErrorResult(MsgInvalidLeadId)

\* C19: the step in which changeLeadStage returns 'Lead stage updated
\* successfully' sets the pipeline_stage_id of the lead named by leadId to
\* newPipelineStageId and changes nothing else: not its closed_at, phone
\* number or any other field, no other lead, and no row is added.
C19_UpdateStep ==
  \A p \in Proc :
    (Returns(p) /\ result'[p].message = MsgStageUpdated) =>
      /\ Len(leads') = Len(leads)
      /\ leads'[dto.leadId.v] =
           [leads[dto.leadId.v] EXCEPT !.pipeline_stage_id = dto.newPipelineStageId.v]
      /\ \A i \in 1..Len(leads) : i # dto.leadId.v => leads'[i] = leads[i]

C19_UpdateChangesOnlyStage == [][C19_UpdateStep]_vars

\* the closed lead was moved to stage 12: it is still closed, and the other
\* lead is still in stage 13
C19_ClosedLeadMovedReached ==
  \E p \in Proc :
    /\ result[p] = SuccessResult(MsgStageUpdated)
    /\ leads[1].pipeline_stage_id = 12 /\ leads[1].closed_at = "closed"
    /\ leads[2].pipeline_stage_id = 13 /\ leads[2].closed_at = NULL
\* C20 (step): a step of a core operation leaves the closed_at of every
\* lead as it was, removes no lead, and a lead it adds has closed_at null.
C20_ClosedAtStep ==
  /\ Len(leads') >= Len(leads)
  /\ \A i \in 1..Len(leads) : leads'[i].closed_at = leads[i].closed_at
  /\ \A i \in (Len(leads) + 1)..Len(leads') : leads'[i].closed_at = NULL

\* C20: no core operation (intake, dispatch, change stage, reply, check
\* availability, book meeting) ever changes a lead's closed_at: a closed
\* lead never becomes open again, and a lead is created with closed_at null.
C20_ClosedAtNeverChanged == [][C20_ClosedAtStep]_vars

\* the intake created a lead next to the closed lead of its phone number,
\* and a change of stage moved the closed lead, which is still closed
C20_CreatedAndMovedReached ==
  /\ Len(leads) = 3
  /\ leads[3].phone_number = "A" /\ leads[3].closed_at = NULL
  /\ leads[1].pipeline_stage_id = 12 /\ leads[1].closed_at = "closed"
  /\ \E p \in Proc : result[p] = SuccessResult(MsgStageUpdated)

\* ---- C21
\* the lead the body names is in the store
LeadInStore == \E i \in DOMAIN leads : leads[i].id = dto.leadId.v
\* the connection rows of the employee and business of the lead p read
ConnectionRowsOf(p) ==
  { connections[i] : i \in { j \in DOMAIN connections :
      /\ connections[j].business_employee_id = lead[p].business_employee_id
      /\ connections[j].business_id = lead[p].business_id } }
\* the stored token of row c is good for more than five minutes
StillValid(c) == c.token_expires_at # NoExpiry /\ c.token_expires_at - now > 5
\* p is in checkAvailabilityForMeeting, resp. bookMeeting
InAvailability(p) ==
  pc[p] \in { "availLead", "availConn", "availRefresh", "availSave", "availFreeBusy",
              "availSlots", "slotLoop" }
InBooking(p) == pc[p] \in { "bookLead", "bookConn", "bookRefresh", "bookSave", "bookEvent" }
\* no free/busy query and no event creation of p
NoCalendarCall(p) ==
  /\ calls[p]["calendar.freeBusy"] = "none"
  /\ calls[p]["calendar.dayFreeBusy"] = "none"
  /\ calls[p]["calendar.events"] = "none"
\* the step of p in which a lookup of the resolution chain comes back
\* without lead, without connection or without token
LeadNotFound(p) ==
  /\ pc[p] \in { "availLead", "bookLead" } /\ pc'[p] # pc[p]
  /\ calls'[p]["leads.byId"] = "error" \/ ~LeadInStore
ConnectionNotFound(p) ==
  /\ pc[p] \in { "availConn", "bookConn" } /\ pc'[p] # pc[p]
  /\ calls'[p]["connections.select"] = "error" \/ Cardinality(ConnectionRowsOf(p)) # 1
TokenIsNull(p) ==
  \/ /\ pc[p] \in { "availConn", "bookConn" } /\ pc'[p] # pc[p]
     /\ calls'[p]["connections.select"] = "ok"
     /\ \E c \in ConnectionRowsOf(p) :
          /\ ConnectionRowsOf(p) = { c }
          /\ ~StillValid(c)
          /\ c.refresh_token = NULL \/ ~credentials
  \/ /\ pc[p] \in { "availRefresh", "bookRefresh" } /\ pc'[p] # pc[p]
     /\ calls'[p]["oauth.token"] = "error"
\* such a step returns an error result
C21_ChainFailureStep ==
  \A p \in Proc :
    LeadNotFound(p) \/ ConnectionNotFound(p) \/ TokenIsNull(p) =>
      /\ pc'[p] = "done"
      /\ InAvailability(p) => result'[p].isAvailable = "false"
      /\ InBooking(p) => result'[p].status = "error"
      /\ NoCalendarCall(p)'
\* a calendar call of p is made with lead, connection and token
C21_CalendarCallResolved ==
  \A p \in Proc :
    ~NoCalendarCall(p) =>
      /\ lead[p] # NullLead
      /\ connection[p] # NoConnection
      /\ accessToken[p] # NULL
\* C21: in bookMeeting and in checkAvailabilityForMeeting, a lead that is
\* not found, a connection that is not found or a null access token makes
\* the operation return an error result (status error, resp. isAvailable
\* false), and no free/busy query or event creation is made without all
\* three.
C21_ChainFailureNoCalendarCall ==
  []C21_CalendarCallResolved /\ [][C21_ChainFailureStep]_vars
\* an availability request has returned without token after a failed
\* refresh, and a booking request has run into the same connection
C21_NoTokenReached ==
  \E p, q \in Proc :
    /\ pc[p] = "done" /\ result[p].isAvailable = "false"
    /\ result[p].message = MsgNoGoogleAuth /\ calls[p]["oauth.token"] = "error"
    /\ NoCalendarCall(p)
    /\ calls[q]["calendar.events"] = "ok"

\* ---- C22
\* the minutes of a day, and the busy intervals of the calendar that share
\* a minute with [from, to)
Minutes == 0..(24 * 60)
SharesMinute(b, from, to) ==
  \E t \in Minutes : b.start <= t /\ t < b.end /\ from <= t /\ t < to
WindowBusy ==
  { b \in busy : SharesMinute(b, meetingDto.date, meetingDto.date + meetingDto.duration) }
\* C22: GoogleService.checkAvailability returns isAvailable = true exactly
\* when the free/busy query of the window [date, date + duration) reports
\* no busy interval; the query of the whole day (the slot search) is made
\* only when the window is busy, and an available window comes without
\* suggestedSlots.
C22_AvailableIffWindowFree ==
  \A p \in Proc :
    /\ pc[p] = "done" /\ calls[p]["calendar.freeBusy"] = "ok" =>
         (result[p].isAvailable = "true" <=> WindowBusy = {})
    /\ result[p].isAvailable = "true" =>
         /\ calls[p]["calendar.freeBusy"] = "ok"
         /\ result[p].suggestedSlots = << >>
    /\ calls[p]["calendar.dayFreeBusy"] # "none" \/ pc[p] \in { "availSlots", "slotLoop" } =>
         /\ calls[p]["calendar.freeBusy"] = "ok"
         /\ WindowBusy # {}
\* a window found free in a calendar that has busy intervals
C22_FreeWindowReached ==
  \E p \in Proc :
    /\ pc[p] = "done" /\ result[p].isAvailable = "true"
    /\ busy # {}
    /\ calls[p]["calendar.dayFreeBusy"] = "none"

\* ---- C23
WorkingStart == meetingDto.minWorkingHour * 60
WorkingEnd == meetingDto.maxWorkingHour * 60
\* the start times workingStart + k * 30 minutes
Grid == { WorkingStart + k * 30 : k \in 0..(2 * 24) }
\* a start time of the grid that fits the working hours, is not past and
\* shares no minute with a busy interval
GoodSlot(p, s) ==
  /\ s \in Grid
  /\ s + meetingDto.duration <= WorkingEnd
  /\ s >= now
  /\ \A b \in busyIntervals[p] : ~SharesMinute(b, s, s + meetingDto.duration)
\* the slot search of p has come to its end
SearchEnded(p) == pc[p] = "done" /\ calls[p]["calendar.dayFreeBusy"] = "ok"
C23_SlotsAreEarliestGood ==
  \A p \in Proc :
    SearchEnded(p) =>
      LET slots == result[p].suggestedSlots
      IN /\ Len(slots) <= 5
         /\ \A i, j \in 1..Len(slots) : i < j => slots[i] < slots[j]
         /\ \A i \in 1..Len(slots) : GoodSlot(p, slots[i])
         /\ \A s \in Grid :
              GoodSlot(p, s) /\ (\A i \in 1..Len(slots) : slots[i] # s) =>
                Len(slots) = 5 /\ s > slots[5]
\* C23: findAvailableSlots terminates and returns at most 5 start times,
\* ascending, each on the grid workingStart + k * 30 minutes, ending within
\* the working hours, not before now and overlapping no busy interval; and
\* they are the earliest such slots of the grid.
C23_SlotSearch ==
  /\ []C23_SlotsAreEarliestGood
  /\ \A p \in Proc : (pc[p] = "slotLoop") ~> (pc[p] = "done")
\* five slots were returned and an earlier slot of the grid was left out
C23_FiveSlotsReached ==
  \E p \in Proc :
    /\ SearchEnded(p)
    /\ Len(result[p].suggestedSlots) = 5
    /\ \E s \in Grid : s < result[p].suggestedSlots[5] /\ ~GoodSlot(p, s)

\* ---- C24
\* the step in which getValidAccessToken is entered by p with the one
\* connection row c of its lead
EntersTokenCheck(p, c) ==
  /\ pc[p] \in { "availConn", "bookConn" } /\ pc'[p] # pc[p]
  /\ calls'[p]["connections.select"] = "ok"
  /\ ConnectionRowsOf(p) = { c }
\* p goes on to its calendar call with token t
ReturnsToken(p, t) ==
  /\ accessToken'[p] = t
  /\ pc'[p] \in { "availFreeBusy", "bookEvent" }
\* p has posted the refresh and waits for its answer
RefreshPosted(p) == pc'[p] \in { "availRefresh", "bookRefresh" }
\* the row of p's connection holds the refreshed token and its expiry
RowRefreshed(p) ==
  \E i \in DOMAIN connections' :
    /\ connections'[i].id = connection[p].id
    /\ connections'[i].access_token = TokenResponse.access_token
    /\ connections'[i].token_expires_at = now + TokenResponse.expires_in
    /\ \A j \in DOMAIN connections' : j # i => connections'[j] = connections[j]
\* the stored token is returned, and nothing requested or written, exactly
\* when more than five minutes are left
C24_StoredTokenStep ==
  \A p \in Proc : \A c \in ConnectionRowsOf(p) :
    EntersTokenCheck(p, c) =>
      /\ StillValid(c) <=> ReturnsToken(p, c.access_token)
      /\ StillValid(c) => connections' = connections
C24_RefreshOnlyWhenDue ==
  \A p \in Proc :
    calls[p]["oauth.token"] # "none" \/ calls[p]["connections.update"] # "none" =>
      ~StillValid(connection[p])
\* a refresh that succeeded is followed by the update of the row
C24_RefreshedStep ==
  \A p \in Proc :
    /\ pc[p] \in { "availRefresh", "bookRefresh" } /\ pc'[p] # pc[p]
    /\ calls'[p]["oauth.token"] = "ok"
    => pc'[p] \in { "availSave", "bookSave" }
\* every token within the buffer is refreshed, and every update is in the
\* row afterwards
C24_AlwaysRefreshedStep ==
  \A p \in Proc :
    /\ \A c \in ConnectionRowsOf(p) :
         EntersTokenCheck(p, c) /\ ~StillValid(c) => RefreshPosted(p)
    /\ pc[p] \in { "availSave", "bookSave" } /\ pc'[p] # pc[p] =>
         RowRefreshed(p) /\ ReturnsToken(p, TokenResponse.access_token)
\* C24 as stated: the stored token is returned without refresh and write
\* exactly when token_expires_at - now > 5 minutes; otherwise a refresh is
\* attempted, and its success writes the new token and expiry = now +
\* expires_in to the connection and returns the new token.
C24_RefreshWheneverDue ==
  /\ []C24_RefreshOnlyWhenDue
  /\ [][C24_StoredTokenStep /\ C24_RefreshedStep /\ C24_AlwaysRefreshedStep]_vars
\* a token within the buffer is refreshed when there are a refresh token
\* and client credentials, and null is returned without request
\* otherwise; the update changes the row when the store accepts it, and
\* the new token is returned either way
C24_RefreshWhenPossibleStep ==
  \A p \in Proc :
    /\ \A c \in ConnectionRowsOf(p) :
         EntersTokenCheck(p, c) /\ ~StillValid(c) =>
           IF c.refresh_token # NULL /\ credentials
             THEN RefreshPosted(p)
             ELSE /\ pc'[p] = "done"
                  /\ result'[p].message = MsgNoGoogleAuth
                  /\ accessToken'[p] = NULL
                  /\ calls'[p]["oauth.token"] = "none"
    /\ pc[p] \in { "availSave", "bookSave" } /\ pc'[p] # pc[p] =>
         /\ ReturnsToken(p, TokenResponse.access_token)
         /\ IF calls'[p]["connections.update"] = "ok"
              THEN RowRefreshed(p)
              ELSE connections' = connections
\* C24, amended: the stored token is returned without refresh and write
\* exactly when token_expires_at - now > 5 minutes; otherwise, with a
\* refresh token and client credentials, a refresh is attempted (without
\* them null is returned and nothing requested), and its success issues
\* the update of the connection with the new token and expiry = now +
\* expires_in and returns the new token, whether or not the store accepted
\* the update.
C24_RefreshWhenDueAndPossible ==
  /\ []C24_RefreshOnlyWhenDue
  /\ [][C24_StoredTokenStep /\ C24_RefreshedStep /\ C24_RefreshWhenPossibleStep]_vars
\* a token was rotated and saved, and a later request was served the saved
\* token without another refresh
C24_RotatedTokenReused ==
  \E p, q \in Proc :
    /\ calls[p]["oauth.token"] = "ok" /\ calls[p]["connections.update"] = "ok"
    /\ \E i \in DOMAIN connections :
         /\ connections[i].access_token = TokenResponse.access_token
         /\ connections[i].token_expires_at = now + TokenResponse.expires_in
    /\ calls[q]["oauth.token"] = "none"
    /\ accessToken[q] = TokenResponse.access_token

\* ---- C25
\* the request's payload changed after it was signed with the secret
Tampered ==
  \E original \in Payloads \ { httpRequest.rawBody } :
    httpRequest.signature = Hmac(original, httpRequest.secret)
Validated(p) == validation[p] # NoValidation

\* C25: validateSignature returns true exactly when the signature text equals
\* the HMAC of the payload under the secret; a signature of another length is
\* refused without the comparator being called, one of equal length that
\* differs (also in byte length) is refused by the comparator, the signature
\* of another payload is refused, and the answer is always true or false
\* and never an exception.
C25_TrueIffHmacEqual ==
  \A p \in Proc :
    Validated(p) =>
      LET expected == Hmac(httpRequest.rawBody, httpRequest.secret)
          v == validation[p]
      IN /\ v.returned \in { "true", "false" }
         /\ (v.returned = "true") <=> (httpRequest.signature = expected)
         /\ Len(httpRequest.signature) # Len(expected) =>
              v.returned = "false" /\ ~v.compared
         /\ Len(httpRequest.signature) = Len(expected) => v.compared
         /\ Tampered => v.returned = "false"

\* a signature of the right length for another payload was compared and
\* refused
C25_TamperedRefused ==
  \E p \in Proc :
    /\ Validated(p)
    /\ Tampered
    /\ validation[p].compared
    /\ validation[p].returned = "false"

\* ---- C26
\* the orchestrator has run for request p: it left its start, called the
\* store or a service, fired a dispatch or returned a result
OrchestratorRan(p) ==
  \/ pc[p] # "idle"
  \/ \E c \in AllCalls : calls[p][c] # "none"
  \/ dpc[p] # "none"
  \/ result[p] # NoResult
\* nothing the guard needs is missing in the request
NothingMissing ==
  /\ httpRequest.config
  /\ httpRequest.secret # NULL
  /\ httpRequest.headerName # NULL
  /\ httpRequest.signature # << >>
  /\ (httpRequest.rawBody # NULL \/ httpRequest.hasBody)
\* the signature is the HMAC of the text the guard validates
SignedCorrectly ==
  \/ httpRequest.rawBody # NULL
       /\ httpRequest.signature = Hmac(httpRequest.rawBody, httpRequest.secret)
  \/ httpRequest.rawBody = NULL
       /\ httpRequest.signature = Hmac(Stringified, httpRequest.secret)
C26_GuardedState ==
  \A p \in Proc :
    /\ OrchestratorRan(p) => guard[p] = "true"
    /\ guard[p] # NULL =>
         /\ guard[p] \in Unauthorized \cup { "true" }
         /\ (guard[p] = "true") <=> (NothingMissing /\ SignedCorrectly)
\* the guard itself reads and writes no table and calls no service
C26_GuardStep ==
  \A p \in Proc :
    guard'[p] # guard[p] => leads' = leads /\ calls' = calls /\ dpc' = dpc

\* C26: handleWhatsappWebhook runs for a request of the message-received
\* route only after canActivate returned true for it; when the signature
\* configuration, the secret, the header name, the signature header or the
\* body is missing, or the signature is invalid, the request ends with an
\* unauthorized error, the orchestrator never runs for it, and the guard
\* has touched neither the store nor any service.
C26_OrchestratorOnlyAfterGuard == []C26_GuardedState /\ [][C26_GuardStep]_vars

\* a request signed for another body was refused after the comparison while
\* the store holds the leads it held before
C26_InvalidSignatureRefused ==
  \E p \in Proc :
    /\ guard[p] = MsgInvalidSignature
    /\ validation[p].compared
    /\ NothingMissing
    /\ ~OrchestratorRan(p)

\* ---- C27
\* a call of invocation p to the store, to the messaging service or to the
\* calendar has failed, with an error value or with an exception
SomeCallFailed(p) == \E c \in AllCalls : calls[p][c] \in { "error", "empty", "thrown" }
\* invocation p has returned a result object to its caller
ReturnedObject(p) ==
  /\ pc[p] = "done"
  /\ result[p] # NoResult
  /\ result[p].status # "exception"
C27_NothingPropagates ==
  \A p \in Proc :
    /\ result[p].status # "exception"
    /\ pc[p] = "done" => ReturnedObject(p)

\* C27: whichever call to the record store, the messaging service or the
\* calendar fails, by an error value or by a thrown exception, each of
\* handleWhatsappWebhook, changeLeadStage, replyWhatsappMessage,
\* checkAvailabilityForMeeting and bookMeeting ends by returning a result
\* object, and none hands an exception to its caller.
C27_FailureEndsInResult ==
  /\ []C27_NothingPropagates
  /\ \A p \in Proc : SomeCallFailed(p) ~> ReturnedObject(p)

\* the update of changeLeadStage threw and the operation answered with the
\* object of its catch block
C27_ThrownUpdateCaught ==
  \E p \in Proc :
    /\ calls[p]["leads.update"] = "thrown"
    /\ result[p] = FailedResult(MsgChangeFailed, ThrownText)
    /\ pc[p] = "done"

\* ---- C28
\* C28: every result that one of the five entry points returns, on success
\* and on every failure path, carries a status field.
C28_EveryResultHasStatus ==
  \A p \in Proc : pc[p] = "done" => result[p].status # NULL

\* ---- C29
\* the whole of a fetched table as the cache holds it: every user's rows,
\* in the table's order
CompleteContents(data) ==
  [u \in Users |-> SelectSeq(data, LAMBDA r : r.user_id = u)]
\* the active row with the key among fetched rows, if there is one
ActiveRowIn(data, key) ==
  IF \E i \in 1..Len(data) : data[i].key = key /\ data[i].is_active
    THEN data[CHOOSE i \in 1..Len(data) : data[i].key = key /\ data[i].is_active]
    ELSE NoKeyRow
RefreshInFlight(q) == loadPc[q] \in { "selected", "rejected" }
C29_CacheComplete == cache = CompleteContents(loadedData)
\* a refresh replaces the contents by the whole of what it fetched, a
\* failed one leaves them, and a read answers from the whole contents of
\* before the step
C29_ReadOrRefreshStep ==
  \A p \in Proc :
    /\ (loadPc[p] = "selected" /\ loadPc'[p] = "done") =>
         cache' = CompleteContents(fetched[p])
    /\ (loadPc[p] = "rejected" /\ loadPc'[p] = "failed") => cache' = cache
    /\ apiGuard'[p] # apiGuard[p] =>
         /\ apiGuard'[p].userApiKey = ActiveRowIn(loadedData, apiKey)
         /\ (apiGuard'[p].outcome = "true") <=> (ActiveRowIn(loadedData, apiKey) # NoKeyRow)

\* C29: a cache read made by ApiKeyGuard while refreshUserApiKeys is between
\* its steps never sees a partly filled cache: at every moment the cache
\* holds the complete rows of the load that last finished, so a read sees
\* the complete contents of before the refresh or the complete contents of
\* after it.
C29_NoPartialCache == []C29_CacheComplete /\ [][C29_ReadOrRefreshStep]_vars

\* a request was admitted with a key of the old contents while a refresh
\* that fetched a table without that key had not yet resumed
C29_ReadDuringRefresh ==
  \E p, q \in Proc :
    /\ loadPc[q] = "selected"
    /\ fetched[q] # loadedData
    /\ apiGuard[p].outcome = "true"
    /\ ActiveRowIn(fetched[q], apiKey) = NoKeyRow

\* ---- C30
RelatedQueriesCompleted(p) ==
  /\ calls[p]["stages.previous"] \in { "ok", "error" }
  /\ calls[p]["stages.next"] \in { "ok", "error" }
CreatedOrSkipped(p) == pc[p] = "done" /\ result[p].status \in { "success", "skipped" }
C30_DispatchedIffCreatedOrSkipped ==
  \A p \in Proc :
    /\ CreatedOrSkipped(p) => dpc[p] # "none" /\ RelatedQueriesCompleted(p)
    /\ dpc[p] # "none" => CreatedOrSkipped(p)
    /\ result[p].status = "error" => dpc[p] = "none"
\* the hand-off happens in the step that ends the handler, after both
\* queries, and an invocation handed off is never handed off again
C30_HandOffStep ==
  \A p \in Proc :
    /\ (dpc[p] = "none" /\ dpc'[p] # "none") =>
         /\ pc[p] = "related" /\ pc'[p] = "done"
         /\ calls'[p]["stages.previous"] \in { "ok", "error" }
         /\ calls'[p]["stages.next"] \in { "ok", "error" }
         /\ result'[p].status \in { "success", "skipped" }
    /\ dpc[p] # "none" => pc'[p] = "done" /\ dpc'[p] # "none"

\* C30: an invocation of handleWhatsappWebhook that returns success or
\* skipped, for a new lead and for an existing one alike, has invoked
\* executeStageWebhook exactly once, after both related-stage queries had
\* completed; an invocation that returns an error result never invokes it.
C30_DispatchExactlyOnce ==
  []C30_DispatchedIffCreatedOrSkipped /\ [][C30_HandOffStep]_vars

\* an invocation that found the lead already open has handed off to the
\* dispatcher although one of its related-stage queries failed
C30_SkippedDispatched ==
  \E p \in Proc :
    /\ result[p].status = "skipped"
    /\ dpc[p] # "none"
    /\ lead[p] # NullLead
    /\ calls[p]["stages.next"] = "error"

\* ---- C31
\* C31: every skipped result of handleWhatsappWebhook carries the id of a
\* lead of the store that has the event's phone number (and was open when it
\* was fetched), also when that lead is closed from outside between the
\* count query and the fetch of the existing lead.
C31_SkippedCarriesLeadId ==
  \A p \in Proc :
    (pc[p] = "done" /\ result[p].status = "skipped") =>
      \E i \in 1..Len(leads) :
        /\ leads[i].id = result[p].lead_id
        /\ leads[i].phone_number = Info(p).phoneNumber

\* ---- C32
BothLookupsCompleted(p) ==
  /\ calls[p]["businesses.select"] # "none"
  /\ calls[p]["stages.input"] # "none"
\* invocation p is past the join of its two lookups
PastLookups(p) ==
  /\ calls[p]["pipelines.select"] = "ok"
  /\ pipeline[p] # 0
  /\ pc[p] # "lookups"
\* C32: the business lookup and the input-stage lookup are joined: the
\* handler goes on (to a result, to the count of open leads, to the insert)
\* only when both have completed, it counts and inserts only when both
\* returned a record, and its result is decided by what the two lookups
\* returned and not by which completed first: a missing business gives
\* 'Business not found' whether or not the stage is missing too.
C32_LookupsJoined ==
  \A p \in Proc :
    /\ PastLookups(p) => BothLookupsCompleted(p)
    /\ (calls[p]["leads.count"] # "none" \/ calls[p]["leads.insert"] # "none") =>
         /\ calls[p]["businesses.select"] = "ok" /\ business[p] # 0
         /\ calls[p]["stages.input"] = "ok" /\ stage[p] # 0
    /\ (PastLookups(p) /\ business[p] = 0) =>
         /\ pc[p] = "done"
         /\ result[p] = ErrorResult(MsgBusinessNotFound)
    /\ (PastLookups(p) /\ business[p] # 0 /\ stage[p] = 0) =>
         /\ pc[p] = "done"
         /\ result[p] = ErrorResult(MsgStageNotFound)

\* the stage lookup has returned its record first and the handler is still
\* waiting for the business lookup, with nothing counted
C32_StageFirstWaiting ==
  \E p \in Proc :
    /\ pc[p] = "lookups"
    /\ calls[p]["stages.input"] = "ok"
    /\ stage[p] # 0
    /\ calls[p]["businesses.select"] = "none"
    /\ calls[p]["leads.count"] = "none"

\* ---- C33
IntakeEnded(p) == pc[p] = "done" /\ RelatedQueriesCompleted(p)
\* the list a query returns for invocation p when it succeeds
PreviousOf(p) == previousStagesQuery(pipeline[p], StageRow(stage[p]).position)
NextOf(p) == nextStagesQuery(pipeline[p], StageRow(stage[p]).position)
\* C33: an error of the previous-stages query or of the next-stages query
\* does not fail the intake: the list of the failed query is empty, the
\* list of the other query is kept, executeStageWebhook is still invoked,
\* and the status is success for an inserted lead and skipped otherwise.
C33_StageErrorTolerated ==
  \A p \in Proc :
    IntakeEnded(p) =>
      /\ previousStages[p] = IF calls[p]["stages.previous"] = "error" THEN << >> ELSE PreviousOf(p)
      /\ nextStages[p] = IF calls[p]["stages.next"] = "error" THEN << >> ELSE NextOf(p)
      /\ dpc[p] # "none"
      /\ result[p].status = IF calls[p]["leads.insert"] = "ok" THEN "success" ELSE "skipped"

\* the previous-stages query failed for a stage that has later stages, and
\* the invocation created its lead, kept the later stages and dispatched
C33_PreviousFailedNextKept ==
  \E p \in Proc :
    /\ IntakeEnded(p)
    /\ calls[p]["stages.previous"] = "error"
    /\ nextStages[p] # << >>
    /\ result[p].status = "success"
    /\ dpc[p] # "none"

\* ---- C34
\* the insert of invocation p settles without a row in this step
InsertFails(p) ==
  /\ calls[p]["leads.insert"] = "none"
  /\ calls'[p]["leads.insert"] \in { "error", "empty" }
InsertFailed(p) == calls[p]["leads.insert"] \in { "error", "empty" }
\* C34 as stated: when the insert returns an error or no row the handler
\* returns an error result carrying the store's message, the store holds
\* no new lead and no dispatch is invoked.
C34_InsertFailureCarriesStoreMessage ==
  [][ \A p \in Proc :
        InsertFails(p) =>
          /\ pc'[p] = "done"
          /\ result'[p] = CaughtResult(ErrCreateFailed)
          /\ leads' = leads
          /\ dpc'[p] = "none" ]_vars

\* C34 amended: when the insert returns an error or no row the handler
\* returns an error result, the store holds no new lead and no dispatch is
\* ever invoked; the result's error text carries the store's message when
\* the store returned an error, and reads 'Unknown error' when the store
\* returned neither an error nor a row.
C34_InsertFailureEndsIntake ==
  /\ [](\A p \in Proc :
          InsertFailed(p) =>
            /\ pc[p] = "done"
            /\ result[p].status = "error"
            /\ result[p].message = MsgUnexpected
            /\ result[p].error = IF calls[p]["leads.insert"] = "error"
                                   THEN ErrCreateFailed ELSE ErrCreateNoRow
            /\ dpc[p] = "none")
  /\ [][ \A p \in Proc : InsertFails(p) => leads' = leads ]_vars

\* an insert that returned neither an error nor a row ended the intake
\* with the 'Unknown error' text, after the count found no open lead
C34_EmptyInsertReached ==
  \E p \in Proc :
    /\ calls[p]["leads.insert"] = "empty"
    /\ calls[p]["leads.count"] = "ok"
    /\ pc[p] = "done"
    /\ result[p].error = ErrCreateNoRow
    /\ OpenLeads(leads, Info(p).phoneNumber) = {}

\* ------------------------------------------------ DealsService.handleWebhook
\* message texts of handleWebhook's result objects
MsgDealMissingId     == "Missing phone_number_id"
MsgDealNoPipeline    == "Pipeline not found or WhatsApp not enabled"
MsgDealNoStage       == "Input stage not found for pipeline"
MsgDealCheckFailed   == "Error checking for existing deals"
MsgDealSkipped       == "Closed deal already exists for this phone number"
MsgDealCreateFailed  == "Failed to create deal"
MsgDealCreated       == "Webhook processed and deal created"
\* message of .maybeSingle() when more than one row matches
MultipleRowsText == "multiple rows returned"

\* a key the returned object does not have
NoDealId == 0
\* the objects handleWebhook returns (the timestamp key is left out)
DealResult(status, msg, dealId, existingId, errText) ==
  [status |-> status, message |-> msg, deal_id |-> dealId,
   existing_deal_id |-> existingId, error |-> errText]

\* a row of pipeline_stage_deals written before the behaviour begins
ExistingDeal(id, phoneNumber, closedAt) ==
  [id |-> id, phone_number |-> phoneNumber, closed_at |-> closedAt, pipeline_stage_id |-> 12]
\* contents of pipeline_stage_deals when the behaviour begins: at most one
\* open deal per phone number
InitialDeals ==
  { << >>,
    << ExistingDeal(1, "B", "closed") >>,
    << ExistingDeal(1, "B", NULL) >>,
    << ExistingDeal(1, "B", "closed"), ExistingDeal(2, "B", "closed") >> }

\* rows with .eq('phone_number', ph).is('closed_at', null)
OpenDeals(rows, ph) ==
  { i \in 1..Len(rows) : rows[i].phone_number = ph /\ rows[i].closed_at = NULL }
\* rows with .eq('phone_number', ph).not('closed_at', 'is', null)
ClosedDeals(rows, ph) ==
  { i \in 1..Len(rows) : rows[i].phone_number = ph /\ rows[i].closed_at # NULL }

\* `conversation?.phone_number || null`
DealPhone(body) == IF Falsy(body.phone_number) THEN NULL ELSE body.phone_number

\* the row handleWebhook inserts
NewDealRow(id, body, stageId) ==
  [id |-> id, phone_number |-> DealPhone(body), closed_at |-> NULL,
   pipeline_stage_id |-> stageId]

dealFrame == <<event, stageRows, dto, calInputs, tokenVars, slotVars, sigVars, cacheVars,
               leads, openAtStart, lenAtStart, business, count, lead,
               previousStages, nextStages, dispVars>>

\* A delivery arrives while no other invocation is running: handleWebhook
\* runs up to its first await.
DealsStart(p) ==
  /\ pc[p] = "idle"
  /\ \A q \in Proc : pc[q] \in { "idle", "done" }
  /\ \A q \in Proc : q < p => pc[q] # "idle"
  /\ req' = [req EXCEPT ![p] = event]
  /\ IF Falsy(event.phone_number_id)
       THEN Return(p, DealResult("error", MsgDealMissingId, NoDealId, NoDealId, NULL))
       ELSE Await(p, "findPipeline")
  /\ UNCHANGED <<dealFrame, deals, disturbances, pipeline, stage, calls>>

\* the pipeline query completes
DealsFindPipeline(p) ==
  /\ pc[p] = "findPipeline"
  /\ \E out \in Outcomes :
       LET row == IF out = "ok" THEN Single(findPipelineRows(req[p].phone_number_id))
                                ELSE [id |-> 0]
       IN /\ Called(p, "pipelines.select", out)
          /\ pipeline' = [pipeline EXCEPT ![p] = row.id]
          /\ IF row.id = 0
               THEN Return(p, DealResult("error", MsgDealNoPipeline, NoDealId, NoDealId, NULL))
               ELSE Await(p, "findStage")
  /\ UNCHANGED <<dealFrame, deals, req, stage>>

\* the input-stage query completes
DealsFindStage(p) ==
  /\ pc[p] = "findStage"
  /\ \E out \in Outcomes :
       LET row == IF out = "ok" THEN Single(findInputStageRows(pipeline[p]))
                                ELSE [id |-> 0]
       IN /\ Called(p, "stages.input", out)
          /\ stage' = [stage EXCEPT ![p] = row.id]
          /\ IF row.id = 0
               THEN Return(p, DealResult("error", MsgDealNoStage, NoDealId, NoDealId, NULL))
             ELSE IF DealPhone(req[p]) # NULL
               THEN Await(p, "checkDeal")
               ELSE Await(p, "insertDeal")
  /\ UNCHANGED <<dealFrame, deals, req, pipeline>>

\* the existing-deal query (.not('closed_at', 'is', null).maybeSingle())
\* completes
DealsCheckClosed(p) ==
  /\ pc[p] = "checkDeal"
  /\ \E out \in Outcomes :
       LET found == ClosedDeals(deals, DealPhone(req[p]))
       IN /\ Called(p, "deals.closed", out)
          /\ IF out = "error" \/ Cardinality(found) > 1
               THEN Return(p, DealResult("error", MsgDealCheckFailed, NoDealId, NoDealId,
                                         IF out = "error" THEN StoreErrorText
                                                          ELSE MultipleRowsText))
             ELSE IF found # {}
               THEN Return(p, DealResult("skipped", MsgDealSkipped, NoDealId,
                                         deals[CHOOSE i \in found : TRUE].id, NULL))
               ELSE Await(p, "insertDeal")
  /\ UNCHANGED <<dealFrame, deals, req, pipeline, stage>>

\* the insert (.insert(dealData).select().single()) completes
DealsInsert(p) ==
  /\ pc[p] = "insertDeal"
  /\ \E out \in InsertOutcomes :
       /\ Called(p, "deals.insert", out)
       /\ IF out = "ok"
            THEN /\ deals' = Append(deals, NewDealRow(Len(deals) + 1, req[p], stage[p]))
                 /\ Return(p, DealResult("success", MsgDealCreated, Len(deals) + 1, NoDealId, NULL))
            ELSE /\ UNCHANGED deals
                 /\ Return(p, DealResult("error", MsgDealCreateFailed, NoDealId, NoDealId,
                                         IF out = "error" THEN StoreErrorText ELSE NULL))
  /\ UNCHANGED <<dealFrame, req, pipeline, stage>>

\* the close of a deal by the CRM front end (not part of this service)
CloseDeal(i) ==
  /\ disturbances < MaxDisturbances
  /\ i \in 1..Len(deals)
  /\ deals[i].closed_at = NULL
  /\ deals' = [deals EXCEPT ![i].closed_at = "closed"]
  /\ disturbances' = disturbances + 1
  /\ UNCHANGED <<dealFrame, req, pipeline, stage, pc, result, calls>>

DealsInit ==
  /\ event \in Events
  /\ stageRows = Stages
  /\ dto = NoDto
  /\ deals \in InitialDeals
  /\ leads = << >>
  /\ disturbances = 0
  /\ pc = [p \in Proc |-> "idle"]
  /\ req = [p \in Proc |-> NoEvent]
  /\ pipeline = [p \in Proc |-> 0]
  /\ business = [p \in Proc |-> 0]
  /\ stage = [p \in Proc |-> 0]
  /\ count = [p \in Proc |-> 0]
  /\ lead = [p \in Proc |-> NullLead]
  /\ previousStages = [p \in Proc |-> << >>]
  /\ nextStages = [p \in Proc |-> << >>]
  /\ result = [p \in Proc |-> DealResult(NULL, NULL, NoDealId, NoDealId, NULL)]
  /\ calls = [p \in Proc |-> [c \in AllCalls |-> "none"]]
  /\ dpc = [p \in Proc |-> "none"]
  /\ messages = [p \in Proc |-> << >>]
  /\ fetches = [p \in Proc |-> 0]
  /\ posts = [p \in Proc |-> << >>]
  /\ openAtStart = [p \in Proc |-> 0]
  /\ lenAtStart = [p \in Proc |-> 0]
  /\ GuardUnused
  /\ CalendarUnused
  /\ CacheUnused

DealsNext ==
  \/ \E p \in Proc : DealsStart(p)
  \/ \E p \in Proc : DealsFindPipeline(p)
  \/ \E p \in Proc : DealsFindStage(p)
  \/ \E p \in Proc : DealsCheckClosed(p)
  \/ \E p \in Proc : DealsInsert(p)
  \/ \E i \in 1..Len(deals) : CloseDeal(i)

DealsSpec == DealsInit /\ [][DealsNext]_vars

\* ---- C35
\* C35: after any sequence of non-overlapping handleWebhook invocations at
\* most one deal per phone number has closed_at = null.
C35_AtMostOneOpenDeal ==
  \A i, j \in 1..Len(deals) :
    ( /\ deals[i].phone_number = deals[j].phone_number
      /\ deals[i].phone_number # NULL
      /\ deals[i].closed_at = NULL
      /\ deals[j].closed_at = NULL ) => i = j

\* ---- C36
\* the keys a request may present
PresentedKeys == { "x", "y", "z" }
\* the keys ApiKeyGuard admits against the cache map
Admitted(map) == { k \in PresentedKeys : apiKeyCanActivate(map, k).outcome = "true" }
\* a step of a refresh whose store query returned an error
FailingRefreshStep(p) ==
  /\ loadPc'[p] # loadPc[p]
  /\ loadPc'[p] \in { "rejected", "failed" }
\* C36: when the store query of refreshUserApiKeys returns an error the
\* refresh fails, and no step of that refresh changes the cache: the cache
\* holds exactly what it held, and every key admitted before is admitted
\* after.
C36_FailedRefreshKeepsCache ==
  [][ \A p \in Proc :
        /\ FailingRefreshStep(p) =>
             /\ cache' = cache
             /\ Admitted(cache') = Admitted(cache)
        /\ (loadPc[p] = "rejected" /\ loadPc'[p] # "rejected") => loadPc'[p] = "failed" ]_vars

\* a refresh failed while the table had been emptied, and the keys loaded
\* before it are still admitted
C36_StaleKeysAdmitted ==
  \E p \in Proc :
    /\ loadPc[p] = "failed"
    /\ apiKeyRows = << >>
    /\ Admitted(cache) # {}

\* ---- C37
\* p is inside getValidAccessToken and takes a step
TokenStep(p) ==
  /\ pc[p] \in { "availConn", "bookConn", "availRefresh", "bookRefresh", "availSave", "bookSave" }
  /\ pc'[p] # pc[p]
\* getValidAccessToken returns null: its caller answers that the
\* authentication failed and issues no calendar call
ReturnsNull(p) ==
  /\ pc'[p] = "done"
  /\ result'[p].message = MsgNoGoogleAuth
  /\ calls'[p]["calendar.freeBusy"] = "none"
  /\ calls'[p]["calendar.events"] = "none"
C37_TokenStep ==
  \A p \in Proc :
    /\ TokenStep(p) => result'[p].status # "exception"
    /\ \A c \in ConnectionRowsOf(p) :
         ( /\ EntersTokenCheck(p, c)
           /\ ~StillValid(c)
           /\ (c.refresh_token = NULL \/ ~credentials) ) =>
             /\ ReturnsNull(p)
             /\ calls'[p]["oauth.token"] = "none"
             /\ connections' = connections
    /\ (TokenStep(p) /\ calls[p]["oauth.token"] = "none" /\ calls'[p]["oauth.token"] = "error") =>
         ReturnsNull(p) /\ connections' = connections
    /\ (TokenStep(p) /\ calls[p]["connections.update"] = "none"
                     /\ calls'[p]["connections.update"] = "error") =>
         /\ ReturnsToken(p, TokenResponse.access_token)
         /\ connections' = connections
\* C37: getValidAccessToken never throws.  With a token within the buffer
\* and no refresh token, or without client credentials, or when the refresh
\* request fails, it returns null and the stored connection is unchanged;
\* when the refresh succeeds and the update of the connection fails it
\* returns the new access token and the stored token and expiry keep their
\* old values.
C37_NullOrNewToken == [][C37_TokenStep]_vars

\* the refresh succeeded, the update of the row was refused, and the
\* caller went on with the new token while the row holds the old one
C37_UnsavedTokenUsed ==
  \E p \in Proc :
    /\ calls[p]["oauth.token"] = "ok"
    /\ calls[p]["connections.update"] = "error"
    /\ accessToken[p] = TokenResponse.access_token
    /\ pc[p] \in { "availFreeBusy", "bookEvent" }
    /\ \E i \in DOMAIN connections :
         /\ connections[i].id = connection[p].id
         /\ connections[i].access_token = StoredToken
         /\ connections[i].token_expires_at = connection[p].token_expires_at

\* ------------------------------------ concurrent changeLeadStage requests
\* the lead every request names, and its stage when the behaviour begins
ContendedLead == 2
InitialStage == 13
\* bodies that name the same lead and different stages (99 does not exist)
SameLeadDtos ==
  { [leadId |-> Num(ContendedLead), newPipelineStageId |-> Num(s), text |-> Undefined] :
      s \in { 12, 13, 14, 99 } }

\* A change-stage request arrives with a body of its own.
ChangeLeadStageWithBody(p) ==
  /\ pc[p] = "idle"
  /\ \A q \in Proc : q < p => pc[q] # "idle"
  /\ \E body \in SameLeadDtos :
       /\ req' = [req EXCEPT ![p] = body]
       /\ IF InvalidId(body.leadId)
            THEN Return(p, ErrorResult(MsgInvalidLeadId))
          ELSE IF InvalidId(body.newPipelineStageId)
            THEN Return(p, ErrorResult(MsgInvalidStageId))
          ELSE Await(p, "leadCheck")
  /\ UNCHANGED <<envVars, inputVars, openAtStart, lenAtStart, localVars, calls, dispVars>>

ConcurrentChangeInit ==
  /\ event = NoEvent
  /\ stageRows = Stages
  /\ dto = NoDto
  /\ leads = << ExistingLead(1, "A", "closed"), ExistingLead(2, "B", NULL) >>
  /\ disturbances = 0
  /\ pc = [p \in Proc |-> "idle"]
  /\ req = [p \in Proc |-> NoEvent]
  /\ pipeline = [p \in Proc |-> 0]
  /\ business = [p \in Proc |-> 0]
  /\ stage = [p \in Proc |-> 0]
  /\ count = [p \in Proc |-> 0]
  /\ lead = [p \in Proc |-> NullLead]
  /\ previousStages = [p \in Proc |-> << >>]
  /\ nextStages = [p \in Proc |-> << >>]
  /\ result = [p \in Proc |-> NoResult]
  /\ calls = [p \in Proc |-> [c \in AllCalls |-> "none"]]
  /\ dpc = [p \in Proc |-> "none"]
  /\ messages = [p \in Proc |-> << >>]
  /\ fetches = [p \in Proc |-> 0]
  /\ posts = [p \in Proc |-> << >>]
  /\ openAtStart = [p \in Proc |-> 0]
  /\ lenAtStart = [p \in Proc |-> 0]
  /\ GuardUnused
  /\ CalendarUnused
  /\ CacheUnused
  /\ DealsUnused

ConcurrentChangeNext ==
  \/ \E p \in Proc : ChangeLeadStageWithBody(p)
  \/ \E p \in Proc : LeadCheck(p)
  \/ \E p \in Proc : StageCheck(p)
  \/ \E p \in Proc : UpdateLeadStage(p)

ConcurrentChangeSpec == ConcurrentChangeInit /\ [][ConcurrentChangeNext]_vars

\* ---- C38
\* the stage of the contended lead
StageOfLead(rows) == rows[CHOOSE i \in 1..Len(rows) : rows[i].id = ContendedLead].pipeline_stage_id
\* the calls whose target stage the stage lookup found
VerifiedTargets ==
  { req[p].newPipelineStageId.v :
      p \in { q \in Proc : /\ calls[q]["stages.byId"] = "ok"
                          /\ StagesById(req[q].newPipelineStageId.v) # {} } }
C38_StageIsInitialOrVerified ==
  StageOfLead(leads) \in { InitialStage } \cup VerifiedTargets
\* the update of call p settles in this step
UpdateSettles(p) == calls[p]["leads.update"] = "none" /\ calls'[p]["leads.update"] # "none"
\* an update the store applied sets the stage to its call's target; no
\* other step writes the table
C38_LastUpdateStep ==
  /\ \A p \in Proc :
       (UpdateSettles(p) /\ calls'[p]["leads.update"] = "ok") =>
          StageOfLead(leads') = req[p].newPipelineStageId.v
  /\ (\A p \in Proc : ~(UpdateSettles(p) /\ calls'[p]["leads.update"] = "ok")) => leads' = leads
\* C38 as stated: under any interleaving of concurrent changeLeadStage
\* calls on one lead the lead's stage is always its initial stage or the
\* target of a call whose stage was verified, every call that reaches its
\* update returns success, and the final stage is the target of the update
\* applied last.
C38_EveryUpdateSucceeds ==
  /\ []C38_StageIsInitialOrVerified
  /\ [][ /\ C38_LastUpdateStep
         /\ \A p \in Proc :
              UpdateSettles(p) =>
                pc'[p] = "done" /\ result'[p] = SuccessResult(MsgStageUpdated) ]_vars
\* C38 amended: under any interleaving of concurrent changeLeadStage calls
\* on one lead the lead's stage is always its initial stage or the target
\* of a call whose stage was verified; a call whose update the store
\* applies returns success and leaves the lead in its target stage, a call
\* whose update the store refuses returns 'Failed to update lead stage'
\* and leaves the stage as it was; the final stage is the target of the
\* update applied last.
C38_AppliedUpdateSucceeds ==
  /\ []C38_StageIsInitialOrVerified
  /\ [][ /\ C38_LastUpdateStep
         /\ \A p \in Proc :
              UpdateSettles(p) =>
                /\ pc'[p] = "done"
                /\ result'[p] = IF calls'[p]["leads.update"] = "ok"
                                  THEN SuccessResult(MsgStageUpdated)
                                  ELSE FailedResult(MsgUpdateFailed, StoreErrorText) ]_vars

\* two calls with different targets both read the lead in its initial
\* stage and both applied their update: the lead is in the stage of one,
\* and both returned success
C38_BothUpdatesApplied ==
  \E p, q \in Proc :
    /\ p # q
    /\ calls[p]["leads.update"] = "ok" /\ calls[q]["leads.update"] = "ok"
    /\ lead[p].pipeline_stage_id = InitialStage /\ lead[q].pipeline_stage_id = InitialStage
    /\ req[p].newPipelineStageId.v # req[q].newPipelineStageId.v
    /\ StageOfLead(leads) = req[q].newPipelineStageId.v
    /\ result[p] = SuccessResult(MsgStageUpdated)
    /\ result[q] = SuccessResult(MsgStageUpdated)

\* ------------------------------------------------ EventsService.handleEvent
\* message texts of handleEvent's result objects that no other handler has
MsgInvalidResponse == "Invalid response format"
MsgMissingLead     == "Missing phoneNumberId or phoneNumber"
MsgResponseSent    == "AI Agent response sent via WhatsApp"

\* `Number(leadId)`: a number or a numeric string gives its value, anything
\* else NaN, which equals no id
NaN == -1
Number(x) == IF x.t \in { "number", "string" } THEN x.v ELSE NaN

\* bodies of the event webhook: the response missing, empty, a text, or a
\* number; the lead id of a complete lead, of a lead without phone number,
\* of a lead without channel, of no lead, and a numeric string
EventBodies ==
  { [response |-> r, leadId |-> l] :
      r \in { Undefined, Text(0), Text(2), Num(5) },
      l \in { Num(1), Num(2), Num(3), Num(9), Str(1) } }

\* the stages, with one of pipeline 7, which has no channel id
EventStages ==
  Stages \cup { [id |-> 71, pipeline_id |-> 7, business_id |-> 1, position |-> 1,
                 is_input |-> TRUE, webhook_url |-> NULL] }
\* lead 1 with phone number and channel, lead 2 without phone number,
\* lead 3 in a stage whose pipeline has no channel
EventLeads ==
  << ExistingLead(1, "A", NULL),
     ExistingLead(2, NULL, NULL),
     [ExistingLead(3, "B", NULL) EXCEPT !.pipeline_stage_id = 71] >>

\* `x ?? ''`
OrEmpty(x) == IF x = NULL THEN "" ELSE x
\* the arguments of whatsappService.sendMessage
SentMessage(row, text) ==
  [phoneNumberId |-> OrEmpty(ChannelOf(row)), to |-> OrEmpty(row.phone_number), body |-> text]

\* An event arrives: handleEvent issues the lead query.
HandleEvent(p) ==
  /\ pc[p] = "idle"
  /\ \A q \in Proc : q < p => pc[q] # "idle"
  /\ Await(p, "eventLead")
  /\ UNCHANGED <<envVars, startVars, localVars, calls, dispVars>>

\* The lead query (.eq('id', Number(leadId)).single()) settles and the
\* tests up to the send run, in the order of the code.
EventLead(p) ==
  /\ pc[p] = "eventLead"
  /\ \E out \in Outcomes :
       /\ Called(p, "leads.byId", out)
       /\ LET found     == LeadsById(leads, Number(dto.leadId))
              leadError == out = "error" \/ Cardinality(found) # 1
              row       == IF leadError THEN NullLead ELSE leads[CHOOSE i \in found : TRUE]
          IN /\ lead' = [lead EXCEPT ![p] = row]
             /\ IF row # NullLead /\ ~Falsy(ChannelOf(row)) /\ ~Falsy(row.phone_number)
                  THEN Return(p, ErrorResult(MsgMissingChannel))
                ELSE IF leadError
                  THEN Return(p, ErrorResult(MsgErrorGettingLead))
                ELSE IF InvalidText(dto.response)
                  THEN Return(p, ErrorResult(MsgInvalidResponse))
                ELSE IF row = NullLead
                  THEN Return(p, ErrorResult(MsgMissingLead))
                ELSE Await(p, "eventSend")
  /\ UNCHANGED <<leads, startVars, pipeline, business, stage, count,
                 previousStages, nextStages, dispVars>>

\* whatsappService.sendMessage settles
EventSend(p) ==
  /\ pc[p] = "eventSend"
  /\ \E out \in Outcomes :
       /\ Called(p, "whatsapp.send", out)
       /\ posts' = [posts EXCEPT ![p] =
            IF out = "ok" THEN Append(@, SentMessage(lead[p], dto.response)) ELSE @]
       /\ Return(p, IF out = "ok" THEN SuccessResult(MsgResponseSent)
                                  ELSE FailedResult(MsgReplyFailed, StoreErrorText))
  /\ UNCHANGED <<leads, startVars, localVars, dpc, messages, fetches>>

EventsInit ==
  /\ event = NoEvent
  /\ stageRows = EventStages
  /\ dto \in EventBodies
  /\ leads = EventLeads
  /\ disturbances = 0
  /\ pc = [p \in Proc |-> "idle"]
  /\ req = [p \in Proc |-> NoEvent]
  /\ pipeline = [p \in Proc |-> 0]
  /\ business = [p \in Proc |-> 0]
  /\ stage = [p \in Proc |-> 0]
  /\ count = [p \in Proc |-> 0]
  /\ lead = [p \in Proc |-> NullLead]
  /\ previousStages = [p \in Proc |-> << >>]
  /\ nextStages = [p \in Proc |-> << >>]
  /\ result = [p \in Proc |-> NoResult]
  /\ calls = [p \in Proc |-> [c \in AllCalls |-> "none"]]
  /\ dpc = [p \in Proc |-> "none"]
  /\ messages = [p \in Proc |-> << >>]
  /\ fetches = [p \in Proc |-> 0]
  /\ posts = [p \in Proc |-> << >>]
  /\ openAtStart = [p \in Proc |-> 0]
  /\ lenAtStart = [p \in Proc |-> 0]
  /\ GuardUnused
  /\ CalendarUnused
  /\ CacheUnused
  /\ DealsUnused

EventsNext ==
  \/ \E p \in Proc : HandleEvent(p)
  \/ \E p \in Proc : EventLead(p)
  \/ \E p \in Proc : EventSend(p)

EventsSpec == EventsInit /\ [][EventsNext]_vars

\* ---- C39
\* the lead rows the body's id names
NamedLeads == { leads[i] : i \in LeadsById(leads, Number(dto.leadId)) }
\* the lead row has a phone number and its pipeline a channel id
Reachable(row) == ~Falsy(row.phone_number) /\ ~Falsy(ChannelOf(row))
\* C39: handleEvent relays the agent response: with a lead that has a phone
\* number and a pipeline with a channel id, and a response that is a
\* non-empty string, it sends exactly one message to the lead's phone
\* number through that channel and returns success; with a lead that lacks
\* the phone number or the channel id it returns an error and sends
\* nothing.
C39_ResponseRelayed ==
  \A p \in Proc : \A row \in NamedLeads :
    (pc[p] = "done" /\ calls[p]["leads.byId"] = "ok") =>
      /\ (Reachable(row) /\ ~InvalidText(dto.response) /\ calls[p]["whatsapp.send"] # "error") =>
            /\ result[p].status = "success"
            /\ posts[p] = << [phoneNumberId |-> ChannelOf(row), to |-> row.phone_number,
                              body |-> dto.response] >>
      /\ ~Reachable(row) =>
            /\ result[p].status = "error"
            /\ posts[p] = << >>

====
